---- MODULE Spec2Model ----
(***************************************************************************)
(* State-machine model of the LiteDb storage engine (crate `storage`):    *)
(* memtable + write-ahead log write path, memtable -> SSTable flush done   *)
(* by the background controller, SSTable point lookup and range scan,      *)
(* the merging iterator, and recovery at open.                             *)
(*                                                                         *)
(* Keys and values are byte strings (sequences of small naturals), ordered *)
(* lexicographically as Vec<u8>.  The empty value is the tombstone.        *)
(* Option<T> is modelled as a sequence of length 0 (None) or 1 (Some).     *)
(***************************************************************************)
EXTENDS Integers, Sequences, FiniteSets, TLC

VARIABLES
    mem_tables,   \* LiteDb.mem_tables : ids of the memtables in the SkipSet
    mt,           \* the MemTable objects, by id: entries, size_bytes
    wal,          \* the WAL file of each memtable id: link state and records
    sst,          \* the SSTable files on disk, by id
    ss_tables,    \* LiteDb.ss_tables : ids of the SSTables in the SkipSet
    ctl,          \* the controller thread: position in its cycle, memtable
    cmp,          \* the compactor thread: position in its loop
    usr,          \* the caller's thread: operation in progress and result
    last,         \* history: per key, the value of the newest acknowledged write
    hist          \* history: counters and flags about the run so far

vars == <<mem_tables, mt, wal, sst, ss_tables, ctl, cmp, usr, last, hist>>

----------------------------------------------------------------------------
(* Bounds of the model *)

MaxWrites == 2
MaxSeqWrites == 3
MaxId == 2
MaxReopen == 1
MaxBatch == 2
MaxSources == 3
MaxWalRecords == 3

(* Options (LiteDbOptions), set small so that flushes happen *)
max_entries == 1
max_size_bytes == 6
sparse_index_range_size == 4
BloomBits == 2

TOMBSTONE == <<>>

Keys == {<<1>>, <<2>>}
Values == {TOMBSTONE, <<1>>, <<2>>}
Ids == 0..MaxId

None == <<>>
Some(x) == <<x>>

----------------------------------------------------------------------------
(* Byte-string order *)

RECURSIVE KeyLess(_, _)
KeyLess(a, b) ==
    IF b = <<>> THEN FALSE
    ELSE IF a = <<>> THEN TRUE
    ELSE IF Head(a) < Head(b) THEN TRUE
    ELSE IF Head(a) > Head(b) THEN FALSE
    ELSE KeyLess(Tail(a), Tail(b))

KeyLeq(a, b) == a = b \/ KeyLess(a, b)

MinKey(S) == CHOOSE k \in S : \A j \in S : KeyLeq(k, j)

RECURSIVE SortedKeys(_)
SortedKeys(S) ==
    IF S = {} THEN <<>>
    ELSE LET k == MinKey(S) IN <<k>> \o SortedKeys(S \ {k})

RECURSIVE SortedIds(_)
SortedIds(S) ==
    IF S = {} THEN <<>>
    ELSE LET i == CHOOSE x \in S : \A y \in S : x <= y
         IN <<i>> \o SortedIds(S \ {i})

(* the other end of the set: the greatest element *)
Back(S) == CHOOSE x \in S : \A y \in S : y <= x

Front(S) == CHOOSE x \in S : \A y \in S : x <= y

(* bincode, standard configuration: a Vec<u8> is its length as a varint
   (one byte below 251) followed by its bytes; a tuple is its fields *)
EncLen(k, v) == 1 + Len(k) + 1 + Len(v)

----------------------------------------------------------------------------
(* Write-ahead log *)

(* LogItem::is_empty: the all-zero item (CRC32-C of no bytes is 0) *)
LogItemIsEmpty(item) == item[1] = <<>> /\ item[2] = <<>>

(* WriteAheadLogger::append: one more LogItem in the file *)
WalAppend(items, k, v) == Append(items, <<k, v>>)

(* WriteAheadLogger::apply_batch: every operation, in order, one flush *)
WalApplyBatch(items, ops) == items \o ops

(* WriteAheadLogIter: the records up to the first end-of-stream item *)
RECURSIVE WalIter(_)
WalIter(items) ==
    IF items = <<>> THEN <<>>
    ELSE IF LogItemIsEmpty(Head(items)) THEN <<>>
    ELSE <<Head(items)>> \o WalIter(Tail(items))

----------------------------------------------------------------------------
(* The WAL file as bytes.  A LogItem is <<key, value, checksum>>. *)

(* utils::crc32: a checksum of key followed by value; a stand-in for
   CRC-32C, kept to 16 bits, that like it is 0 for no bytes *)
RECURSIVE CrcFold(_, _)
CrcFold(bytes, c) ==
    IF bytes = <<>> THEN c
    ELSE CrcFold(Tail(bytes), (c * 31 + Head(bytes) + 7) % 65536)

crc32(key, value) == CrcFold(key \o value, 0)

(* LogItem::new *)
LogItemNew(key, value) == <<key, value, crc32(key, value)>>

(* LogItem::check *)
LogItemCheck(item) == item[3] = crc32(item[1], item[2])

(* little-endian bytes of n, `width` of them *)
RECURSIVE LeBytes(_, _)
LeBytes(n, width) ==
    IF width = 0 THEN <<>> ELSE <<n % 256>> \o LeBytes(n \div 256, width - 1)

RECURSIVE LeValue(_)
LeValue(bytes) ==
    IF bytes = <<>> THEN 0 ELSE Head(bytes) + 256 * LeValue(Tail(bytes))

(* bincode varint of an unsigned integer below 2^32 *)
EncodeVarint(n) ==
    IF n < 251 THEN <<n>>
    ELSE IF n < 65536 THEN <<251>> \o LeBytes(n, 2)
    ELSE <<252>> \o LeBytes(n, 4)

(* the decoded integer and the bytes left; ok is FALSE when the bytes end
   too early or the marker is none of an integer this wide *)
DecodeVarint(bytes) ==
    LET fail == [ok |-> FALSE, val |-> 0, rest |-> <<>>]
        fixed(width) ==
            IF Len(bytes) < 1 + width THEN fail
            ELSE [ ok |-> TRUE,
                   val |-> LeValue(SubSeq(bytes, 2, 1 + width)),
                   rest |-> SubSeq(bytes, 2 + width, Len(bytes)) ]
    IN IF bytes = <<>> THEN fail
       ELSE IF Head(bytes) < 251
            THEN [ok |-> TRUE, val |-> Head(bytes), rest |-> Tail(bytes)]
       ELSE IF Head(bytes) = 251 THEN fixed(2)
       ELSE IF Head(bytes) = 252 THEN fixed(4)
       ELSE fail

(* a Vec<u8>: its length, then its bytes *)
EncodeVec(v) == EncodeVarint(Len(v)) \o v

DecodeVec(bytes) ==
    LET n == DecodeVarint(bytes)
    IN IF ~n.ok \/ Len(n.rest) < n.val
       THEN [ok |-> FALSE, val |-> <<>>, rest |-> <<>>]
       ELSE [ ok |-> TRUE, val |-> SubSeq(n.rest, 1, n.val),
              rest |-> SubSeq(n.rest, n.val + 1, Len(n.rest)) ]

(* encode_into_writer of a LogItem: key, value, checksum *)
EncodeLogItem(item) ==
    EncodeVec(item[1]) \o EncodeVec(item[2]) \o EncodeVarint(item[3])

(* decode_from_reader::<LogItem> *)
DecodeLogItem(bytes) ==
    LET fail == [ok |-> FALSE, item |-> <<>>, rest |-> <<>>]
        k == DecodeVec(bytes)
    IN IF ~k.ok THEN fail
       ELSE LET v == DecodeVec(k.rest)
            IN IF ~v.ok THEN fail
               ELSE LET c == DecodeVarint(v.rest)
                    IN IF ~c.ok THEN fail
                       ELSE [ ok |-> TRUE, item |-> <<k.val, v.val, c.val>>,
                              rest |-> c.rest ]

(* the bytes append / apply_batch leave in a file for these records *)
RECURSIVE WalBytes(_)
WalBytes(items) ==
    IF items = <<>> THEN <<>>
    ELSE EncodeLogItem(LogItemNew(Head(items)[1], Head(items)[2]))
         \o WalBytes(Tail(items))

(* WriteAheadLogIter::next driven by MemTable::open: the (key, value) pairs
   yielded before the stream ends, and whether it ended with an error.  A
   decode error (the end of the file included) and the empty item end the
   stream; a checksum mismatch is the error CorruptedData. *)
RECURSIVE WalReplay(_)
WalReplay(bytes) ==
    LET d == DecodeLogItem(bytes)
    IN IF ~d.ok THEN [items |-> <<>>, err |-> FALSE]
       ELSE IF d.item[1] = <<>> /\ d.item[2] = <<>> /\ d.item[3] = 0
            THEN [items |-> <<>>, err |-> FALSE]
       ELSE IF ~LogItemCheck(d.item) THEN [items |-> <<>>, err |-> TRUE]
       ELSE LET r == WalReplay(d.rest)
            IN [ items |-> <<<<d.item[1], d.item[2]>>>> \o r.items,
                 err |-> r.err ]

----------------------------------------------------------------------------
(* Memtable: entries is the SkipMap (a function on the keys it holds) *)

MapInsert(entries, k, v) ==
    [x \in (DOMAIN entries) \cup {k} |-> IF x = k THEN v ELSE entries[x]]

RECURSIVE MapInsertAll(_, _)
MapInsertAll(entries, ops) ==
    IF ops = <<>> THEN entries
    ELSE MapInsertAll(MapInsert(entries, Head(ops)[1], Head(ops)[2]), Tail(ops))

EmptyMap == [x \in {} |-> TOMBSTONE]

(* MemTable::open: replay the WAL into a fresh map, size_bytes starts at 0 *)
MemTableOpen(items) ==
    [entries |-> MapInsertAll(EmptyMap, WalIter(items)), size_bytes |-> 0]

(* MemTable::get *)
MemTableGet(m, k) == IF k \in DOMAIN m.entries THEN Some(m.entries[k]) ELSE None

(* full only when both limits are reached *)
IsFullBoth(m, entries_limit, size_limit) ==
    Cardinality(DOMAIN m.entries) >= entries_limit /\ m.size_bytes >= size_limit

(* MemTable::is_full(max_entries, max_size_bytes) *)
IsFullWith(m, entries_limit, size_limit) ==
    Cardinality(DOMAIN m.entries) >= entries_limit \/ m.size_bytes >= size_limit

(* is_mature under the policy built from the options *)
IsFull(m) == IsFullWith(m, max_entries, max_size_bytes)

(* BatchOperations::size_bytes, accumulated by insert and delete *)
RECURSIVE BatchSizeBytes(_)
BatchSizeBytes(ops) ==
    IF ops = <<>> THEN 0
    ELSE Len(Head(ops)[1]) + Len(Head(ops)[2]) + BatchSizeBytes(Tail(ops))

(* Option<Key> bounds of a scan: [from, to) *)
InRange(k, from, to) ==
    /\ from = None \/ KeyLeq(from[1], k)
    /\ to = None \/ KeyLess(k, to[1])

(* MemTableIterator: the map's range, ascending *)
MemTableScan(m, from, to) ==
    LET ks == SortedKeys({k \in DOMAIN m.entries : InRange(k, from, to)})
    IN [i \in 1..Len(ks) |-> <<ks[i], m.entries[ks[i]]>>]

----------------------------------------------------------------------------
(* SSTable.  `data` is the memory-mapped data region as its sequence of
   encoded (key, value) records; a record starts at the sum of the encoded
   lengths before it. *)

RECURSIVE SumBytes(_)
SumBytes(b) == IF b = <<>> THEN 0 ELSE Head(b) + SumBytes(Tail(b))

(* Bloom filter: the bits a key sets, and the bits it is checked against *)
BloomHash(k) == SumBytes(k) % BloomBits

RECURSIVE OffsetOf(_, _)
OffsetOf(data, i) ==
    IF i <= 1 THEN 0
    ELSE OffsetOf(data, i - 1) + EncLen(data[i - 1][1], data[i - 1][2])

DataSize(data) == OffsetOf(data, Len(data) + 1)

(* The walk of MemTable::save: the index entry pushed when the size written
   before the record is 0 or a multiple of the range size *)
RECURSIVE SaveIndexWith(_, _, _)
SaveIndexWith(data, i, range_size) ==
    IF i > Len(data) THEN <<>>
    ELSE LET size_of_serialized_data == OffsetOf(data, i)
         IN (IF size_of_serialized_data = 0
                \/ size_of_serialized_data % range_size = 0
             THEN <<<<data[i][1], size_of_serialized_data>>>>
             ELSE <<>>)
            \o SaveIndexWith(data, i + 1, range_size)

SaveIndex(data, i) == SaveIndexWith(data, i, sparse_index_range_size)

(* Bloom::set, and the filter after the walk of MemTable::save has set the
   keys of records 1..n *)
BloomSet(bloom, k) == bloom \cup {BloomHash(k)}

RECURSIVE SaveBloom(_, _)
SaveBloom(data, n) ==
    IF n = 0 THEN {} ELSE BloomSet(SaveBloom(data, n - 1), data[n][1])

(* MemTable::save(_, _, range_size): the SSTable written for memtable m with
   this id.  Defined for a memtable with at least one entry. *)
SaveWith(m, id, range_size) ==
    LET ks == SortedKeys(DOMAIN m.entries)
        data == [i \in 1..Len(ks) |-> <<ks[i], m.entries[ks[i]]>>]
        n == Len(data)
        size_of_serialized_data == DataSize(data)
        last_num_bytes_written == EncLen(data[n][1], data[n][2])
    IN [ id |-> id,
         first_key |-> <<ks[1], 0>>,
         last_key |-> <<ks[n], size_of_serialized_data - last_num_bytes_written>>,
         total_size |-> m.size_bytes,
         num_entries |-> Cardinality(DOMAIN m.entries),
         data |-> data,
         index |-> SaveIndexWith(data, 1, range_size)
                       \o <<<<ks[n], size_of_serialized_data>>>>,
         bloom_filter |-> SaveBloom(data, n) ]

(* MemTable::save as the controller calls it, with the options' range size *)
MemTableSave(m, id) == SaveWith(m, id, sparse_index_range_size)

(* BloomFilterState::from(&Bloom): the bitmap, one entry per bit, and the
   number of bits *)
BloomFilterStateFrom(bloom) ==
    [ bytes |-> [i \in 1..BloomBits |-> IF (i - 1) \in bloom THEN 1 ELSE 0],
      bitmap_bits |-> BloomBits ]

(* the bitmap read one position off *)
BloomFromStateShifted(state) ==
    {i \in 0..(state.bitmap_bits - 1) :
        state.bytes[((i + 1) % state.bitmap_bits) + 1] = 1}

(* Bloom::from(BloomFilterState): the bits that are set in the bitmap *)
BloomFromState(state) ==
    {i \in 0..(state.bitmap_bits - 1) : state.bytes[i + 1] = 1}

(* the file MemTable::save leaves for table t: the data region, the
   metadata, the index and the state of the Bloom filter *)
SSTableFile(t) ==
    [ id |-> t.id, first_key |-> t.first_key, last_key |-> t.last_key,
      total_size |-> t.total_size, num_entries |-> t.num_entries,
      data |-> t.data, index |-> t.index,
      bloom_filter_state |-> BloomFilterStateFrom(t.bloom_filter) ]

(* SSTable::open: the table read back from its file *)
SSTableOpen(file) ==
    [ id |-> file.id, first_key |-> file.first_key, last_key |-> file.last_key,
      total_size |-> file.total_size, num_entries |-> file.num_entries,
      data |-> file.data, index |-> file.index,
      bloom_filter |-> BloomFromState(file.bloom_filter_state) ]

(* SSTable::potentially_contains_key *)
PotentiallyContainsKey(t, k) == BloomHash(k) \in t.bloom_filter

(* slice::partition_point on the sorted index: the number of leading items
   whose key is below `key` *)
RECURSIVE PartitionPointLeq(_, _)
PartitionPointLeq(items, key) ==
    IF items = <<>> THEN 0
    ELSE IF KeyLeq(Head(items)[1], key)
         THEN 1 + PartitionPointLeq(Tail(items), key)
         ELSE 0

RECURSIVE PartitionPoint(_, _)
PartitionPoint(items, key) ==
    IF items = <<>> THEN 0
    ELSE IF KeyLess(Head(items)[1], key)
         THEN 1 + PartitionPoint(Tail(items), key)
         ELSE 0

(* the entry at the partition point itself, without the step back *)
GetOffsetNoStepBack(items, key) ==
    LET idx == PartitionPoint(items, key)
    IN IF idx >= Len(items) THEN None ELSE Some(items[idx + 1][2])

(* SSTableSparseIndex::get_offset (idx is 0-based, as in the source) *)
GetOffset(items, key) ==
    LET pp == PartitionPoint(items, key)
        idx == IF pp >= 1 THEN pp - 1 ELSE 0
    IN IF idx > Len(items) THEN None ELSE Some(items[idx + 1][2])

(* decode(&file[running_offset..]): the record starting there, if any *)
RecordAt(t, off) ==
    LET hit == {i \in 1..Len(t.data) : OffsetOf(t.data, i) = off}
    IN IF hit = {} THEN 0 ELSE CHOOSE i \in hit : TRUE

(* the loop without the test against the stop key *)
RECURSIVE IterLoopNoStop(_, _, _, _)
IterLoopNoStop(t, running_offset, start_key_opt, stop_key_opt) ==
    LET i == RecordAt(t, running_offset)
    IN IF i = 0 THEN -1
       ELSE IF start_key_opt # None /\ KeyLess(t.data[i][1], start_key_opt[1])
       THEN IterLoopNoStop(t, running_offset + EncLen(t.data[i][1], t.data[i][2]),
                           start_key_opt, stop_key_opt)
       ELSE i

(* The loop of SSTableIterator::next from running_offset: the record it
   stops at (0: the iterator returns None; -1: a decode error) *)
RECURSIVE IterLoop(_, _, _, _)
IterLoop(t, running_offset, start_key_opt, stop_key_opt) ==
    LET i == RecordAt(t, running_offset)
    IN IF i = 0 THEN -1
       ELSE LET k == t.data[i][1]
                num_bytes == EncLen(t.data[i][1], t.data[i][2])
            IN IF start_key_opt # None /\ KeyLess(k, start_key_opt[1])
               THEN IterLoop(t, running_offset + num_bytes, start_key_opt, stop_key_opt)
               ELSE IF stop_key_opt # None /\ ~KeyLess(k, stop_key_opt[1])
               THEN 0
               ELSE i

(* SSTableIterator driven to its first None: the items it yields.
   offset_opt is the iterator's field. *)
RECURSIVE IterCollect(_, _, _, _)
IterCollect(t, offset_opt, start_key_opt, stop_key_opt) ==
    IF offset_opt = None THEN <<>>
    ELSE IF offset_opt[1] > t.last_key[2] THEN <<>>
    ELSE LET i == IterLoop(t, offset_opt[1], start_key_opt, stop_key_opt)
         IN IF i = 0 THEN <<>>
            ELSE IF i = -1 THEN <<"Err">>
            ELSE <<t.data[i]>>
                 \o IterCollect(t, Some(OffsetOf(t.data, i + 1)),
                                start_key_opt, stop_key_opt)

(* SSTableIterator::new followed by iteration *)
SSTableScan(t, from, to) ==
    IterCollect(t, IF from # None THEN GetOffset(t.index, from[1]) ELSE Some(0),
                from, to)

(* the loop answering with the first item the iterator yields *)
SSTableGetLoopFirst(items, key) ==
    IF items = <<>> THEN None
    ELSE IF Head(items)[2] = TOMBSTONE THEN None ELSE Some(Head(items)[2])

(* The for loop of SSTable::get over the iterator's items *)
RECURSIVE SSTableGetLoop(_, _)
SSTableGetLoop(items, key) ==
    IF items = <<>> THEN None
    ELSE IF KeyLess(key, Head(items)[1]) THEN None
    ELSE IF Head(items)[1] = key
         THEN (IF Head(items)[2] = TOMBSTONE THEN None ELSE Some(Head(items)[2]))
         ELSE SSTableGetLoop(Tail(items), key)

(* SSTable::get *)
SSTableGet(t, key) ==
    IF ~PotentiallyContainsKey(t, key) THEN None
    ELSE SSTableGetLoop(SSTableScan(t, Some(key), None), key)

----------------------------------------------------------------------------
(* Merging iterator.  A source is the sequence of items its iterator still
   has to yield; an ItemPack is <<source index, key, value>> (indices from 1). *)

(* the order with the source indices of equal keys compared the other way *)
ItemPackLessOldestFirst(a, b) ==
    IF a[2] = b[2] THEN b[1] < a[1] ELSE KeyLess(b[2], a[2])

(* Ord for ItemPack: a < b.  Keys compare reversed; equal keys compare by
   source index. *)
ItemPackLess(a, b) ==
    IF a[2] = b[2] THEN a[1] < b[1] ELSE KeyLess(b[2], a[2])

(* BinaryHeap::peek / pop: the greatest pack *)
HeapTop(sorter) == CHOOSE x \in sorter : \A y \in sorter \ {x} : ItemPackLess(y, x)

(* CombineIterator::advance: pull the next item of a source into the heap *)
Advance(c, idx) ==
    IF c.iterators[idx] = <<>> THEN c
    ELSE [ iterators |-> [c.iterators EXCEPT ![idx] = Tail(@)],
           sorter |-> c.sorter \cup
                      {<<idx, Head(c.iterators[idx])[1], Head(c.iterators[idx])[2]>>} ]

(* CombineIterator::try_new: advance every source once, in order *)
RECURSIVE TryNewFrom(_, _)
TryNewFrom(c, idx) ==
    IF idx > Len(c.iterators) THEN c ELSE TryNewFrom(Advance(c, idx), idx + 1)

TryNew(iterators) == TryNewFrom([iterators |-> iterators, sorter |-> {}], 1)

(* the while loop of next: drop the packs that carry the key just taken *)
RECURSIVE SkipSameKey(_, _)
SkipSameKey(c, key) ==
    IF c.sorter = {} THEN c
    ELSE LET entry == HeapTop(c.sorter)
         IN IF entry[2] # key THEN c
            ELSE SkipSameKey(Advance([c EXCEPT !.sorter = @ \ {entry}], entry[1]), key)

(* CombineIterator driven to its end: the items it yields *)
RECURSIVE CombineCollect(_)
CombineCollect(c) ==
    IF c.sorter = {} THEN <<>>
    ELSE LET item == HeapTop(c.sorter)
             c1 == Advance([c EXCEPT !.sorter = @ \ {item}], item[1])
         IN <<<<item[2], item[3]>>>> \o CombineCollect(SkipSameKey(c1, item[2]))

----------------------------------------------------------------------------
(* Engine facade: pure parts of LiteDb::get and LiteDb::scan *)

(* the resolution of a value found in a table: a tombstone reads as absent *)
Resolve(value) == IF value = TOMBSTONE THEN None ELSE Some(value)

RECURSIVE SeqFilter(_, _, _)
SeqFilter(ids, files, key) ==
    IF ids = <<>> THEN <<>>
    ELSE (IF PotentiallyContainsKey(files[Head(ids)], key)
          THEN <<Head(ids)>> ELSE <<>>) \o SeqFilter(Tail(ids), files, key)

(* the for loop of LiteDb::get over the collected SSTables, in the order of
   the collection; a table answering None lets the loop go on *)
RECURSIVE GetProbe(_, _, _)
GetProbe(ids, files, key) ==
    IF ids = <<>> THEN None
    ELSE LET r == SSTableGet(files[Head(ids)], key)
         IN IF r # None THEN Resolve(r[1])
            ELSE GetProbe(Tail(ids), files, key)

(* LiteDb::get after the first memtable had no entry: ss_tables.iter(),
   ascending by id, filtered by the Bloom filter, probed in that order *)
GetFromSSTables(ss, files, key) ==
    GetProbe(SeqFilter(SortedIds(ss), files, key), files, key)

(* LiteDb::scan: SSTables ascending by id, then memtables ascending by id,
   merged by CombineIterator *)
ScanItems(ss, files, mems, tables, from, to) ==
    LET ssl == SortedIds(ss)
        ml == SortedIds(mems)
        iterators ==
            [i \in 1..Len(ssl) |-> SSTableScan(files[ssl[i]], from, to)]
            \o [i \in 1..Len(ml) |-> MemTableScan(tables[ml[i]], from, to)]
    IN CombineCollect(TryNew(iterators))

----------------------------------------------------------------------------
(* State *)

NoWal == [st |-> "none", items |-> <<>>]
NewWal == [st |-> "linked", items |-> <<>>]

UsrIdle ==
    [ pc |-> "idle", op |-> "none", ops |-> <<>>, tgt |-> 0,
      from |-> None, to |-> None, obs_mem |-> {}, obs_ss |-> {},
      res |-> None, items |-> <<>>, pre |-> <<>>, quiet |-> TRUE ]

CtlIdle == [pc |-> "idle", cur |-> 0]

(* the compactor thread waiting in select! *)
CmpIdle == [pc |-> "select"]

Init ==
    /\ mem_tables = {0}
    /\ mt = [i \in {0} |-> MemTableOpen(<<>>)]
    /\ wal = [i \in Ids |-> IF i = 0 THEN NewWal ELSE NoWal]
    /\ sst = [i \in {} |-> 0]
    /\ ss_tables = {}
    /\ ctl = CtlIdle
    /\ cmp = CmpIdle
    /\ usr = UsrIdle
    /\ last = [k \in Keys |-> None]
    /\ hist = [ writes |-> 0, reopens |-> 0, crashed |-> FALSE, closed |-> FALSE,
                sess |-> {}, by_batch |-> {} ]

UsrFree == usr.pc \in {"idle", "done"}

(* the operations of a batch: BatchOperations::insert / delete push one
   (key, value) pair each, a delete pushing the tombstone *)
Batches ==
    UNION { [1..n -> Keys \X Values] : n \in 1..MaxBatch }

----------------------------------------------------------------------------
(* The caller's thread.  usr.quiet records that every step of the read in
   progress ran while the controller was between two cycles. *)

(* MemTable::set and MemTable::apply_batch: what the first and the second
   step of the write do *)
MemTableSetOrderSwapped == <<"map", "wal">>

MemTableSetOrder == <<"wal", "map">>

(* the record(s) go to the target memtable's WAL file handle *)
WalStep(tgt, ops, single) ==
    /\ wal' = [wal EXCEPT ![tgt].items =
                  IF single THEN WalAppend(@, ops[1][1], ops[1][2])
                  ELSE WalApplyBatch(@, ops)]
    /\ UNCHANGED mt

(* size_bytes.fetch_add, then the insert(s) into the SkipMap *)
MapStep(tgt, ops, single) ==
    /\ mt' = [mt EXCEPT ![tgt] =
                 [ entries |-> IF single
                               THEN MapInsert(@.entries, ops[1][1], ops[1][2])
                               ELSE MapInsertAll(@.entries, ops),
                   size_bytes |-> IF single
                                  THEN @.size_bytes + Len(ops[1][1]) + Len(ops[1][2])
                                  ELSE @.size_bytes + BatchSizeBytes(ops) ]]
    /\ UNCHANGED wal

WriteStep(n, tgt, ops, single) ==
    IF MemTableSetOrder[n] = "wal" THEN WalStep(tgt, ops, single)
    ELSE MapStep(tgt, ops, single)

(* LiteDb::set / LiteDb::delete: mem_tables.front() is the write target *)
SetBegin(k, v) ==
    /\ UsrFree
    /\ usr' = [UsrIdle EXCEPT !.pc = "write_1", !.op = "set",
                              !.ops = <<<<k, v>>>>, !.tgt = Front(mem_tables)]
    /\ UNCHANGED <<mem_tables, mt, wal, sst, ss_tables, ctl, last, cmp, hist>>

(* LiteDb::apply_batch *)
BatchBegin(ops) ==
    /\ UsrFree
    /\ usr' = [UsrIdle EXCEPT !.pc = "write_1", !.op = "batch", !.ops = ops,
                              !.tgt = Front(mem_tables),
                              !.pre = <<mt[Front(mem_tables)],
                                        wal[Front(mem_tables)].items>>]
    /\ UNCHANGED <<mem_tables, mt, wal, sst, ss_tables, ctl, last, cmp, hist>>

WriteFirst ==
    /\ usr.pc = "write_1"
    /\ WriteStep(1, usr.tgt, usr.ops, usr.op = "set")
    /\ usr' = [usr EXCEPT !.pc = "write_2"]
    /\ UNCHANGED <<mem_tables, sst, ss_tables, ctl, last, cmp, hist>>

(* the newest acknowledged value of each key after the operations *)
RECURSIVE Acknowledge(_, _)
Acknowledge(l, ops) ==
    IF ops = <<>> THEN l
    ELSE Acknowledge([l EXCEPT ![Head(ops)[1]] = Some(Head(ops)[2])], Tail(ops))

OpKeys(ops) == {ops[i][1] : i \in 1..Len(ops)}

(* second step, after which the operation returns Ok *)
WriteSecond ==
    /\ usr.pc = "write_2"
    /\ WriteStep(2, usr.tgt, usr.ops, usr.op = "set")
    /\ usr' = [usr EXCEPT !.pc = "done"]
    /\ last' = Acknowledge(last, usr.ops)
    /\ hist' = [hist EXCEPT !.writes = @ + Len(usr.ops),
                            !.sess = @ \cup OpKeys(usr.ops),
                            !.by_batch = IF usr.op = "batch"
                                         THEN @ \cup OpKeys(usr.ops)
                                         ELSE @ \ OpKeys(usr.ops)]
    /\ UNCHANGED <<mem_tables, sst, ss_tables, ctl, cmp>>

(* LiteDb::get, first part: the front memtable *)
GetBegin(k) ==
    /\ UsrFree
    /\ LET f == Front(mem_tables)
           r == MemTableGet(mt[f], k)
       IN usr' = [UsrIdle EXCEPT !.pc = IF r # None THEN "done" ELSE "get_ss",
                                 !.op = "get", !.from = Some(k),
                                 !.obs_mem = {f}, !.quiet = (ctl.pc = "idle"),
                                 !.res = IF r # None THEN Resolve(r[1]) ELSE None]
    /\ UNCHANGED <<mem_tables, mt, wal, sst, ss_tables, ctl, last, cmp, hist>>

(* LiteDb::get, second part: the SSTables *)
GetSSTables ==
    /\ usr.pc = "get_ss"
    /\ usr' = [usr EXCEPT !.pc = "done", !.obs_ss = ss_tables,
                          !.quiet = (@ /\ ctl.pc = "idle"),
                          !.res = GetFromSSTables(ss_tables, sst, usr.from[1])]
    /\ UNCHANGED <<mem_tables, mt, wal, sst, ss_tables, ctl, last, cmp, hist>>

(* LiteDb::scan, first loop: one iterator per SSTable of ss_tables *)
ScanBegin(from, to) ==
    /\ UsrFree
    /\ usr' = [UsrIdle EXCEPT !.pc = "scan_mem", !.op = "scan",
                              !.from = from, !.to = to, !.obs_ss = ss_tables,
                              !.quiet = (ctl.pc = "idle")]
    /\ UNCHANGED <<mem_tables, mt, wal, sst, ss_tables, ctl, last, cmp, hist>>

(* LiteDb::scan, second loop over mem_tables, and the merged stream *)
ScanMemTables ==
    /\ usr.pc = "scan_mem"
    /\ usr' = [usr EXCEPT !.pc = "done", !.obs_mem = mem_tables,
                          !.quiet = (@ /\ ctl.pc = "idle"),
                          !.items = ScanItems(usr.obs_ss, sst, mem_tables, mt,
                                              usr.from, usr.to)]
    /\ UNCHANGED <<mem_tables, mt, wal, sst, ss_tables, ctl, last, cmp, hist>>

----------------------------------------------------------------------------
(* The memtable controller thread: one cycle of its loop, step by step *)

(* a tick under a policy with these limits: the front memtable is the one
   checked for maturity; a tick that finds it not mature goes back to
   select! *)
CtlTickWith(entries_limit, size_limit) ==
    /\ ctl.pc = "idle"
    /\ LET current_mem_table == Front(mem_tables)
       IN IF IsFullWith(mt[current_mem_table], entries_limit, size_limit)
             /\ current_mem_table + 1 <= MaxId
          THEN ctl' = [pc |-> "open_new", cur |-> current_mem_table]
          ELSE UNCHANGED ctl
    /\ UNCHANGED <<mem_tables, mt, wal, sst, ss_tables, usr, last, cmp, hist>>

(* a tick under the policy of the options *)
CtlTick == CtlTickWith(max_entries, max_size_bytes)

(* the new memtable opened but not inserted into mem_tables *)
CtlOpenNewUnlisted ==
    /\ ctl.pc = "open_new"
    /\ LET id == ctl.cur + 1
           file == IF wal[id].st = "linked" THEN wal[id] ELSE NewWal
       IN /\ wal' = [wal EXCEPT ![id] = file]
          /\ mt' = [i \in (DOMAIN mt) \cup {id} |->
                       IF i = id THEN MemTableOpen(file.items) ELSE mt[i]]
    /\ ctl' = [ctl EXCEPT !.pc = "save_walk"]
    /\ UNCHANGED <<mem_tables, sst, ss_tables, usr, last, cmp, hist>>

(* MemTable::open(dir, id + 1) and mem_tables.insert: the WAL file is
   created unless it exists, and replayed *)
CtlOpenNew ==
    /\ ctl.pc = "open_new"
    /\ LET id == ctl.cur + 1
           file == IF wal[id].st = "linked" THEN wal[id] ELSE NewWal
       IN /\ wal' = [wal EXCEPT ![id] = file]
          /\ mt' = [i \in (DOMAIN mt) \cup {id} |->
                       IF i = id THEN MemTableOpen(file.items) ELSE mt[i]]
          /\ mem_tables' = mem_tables \cup {id}
    /\ ctl' = [ctl EXCEPT !.pc = "save_walk"]
    /\ UNCHANGED <<sst, ss_tables, usr, last, cmp, hist>>

(* MemTable::save up to sync_all: the SSTable file is written *)
CtlSaveWalk ==
    /\ ctl.pc = "save_walk"
    /\ DOMAIN mt[ctl.cur].entries # {}
    /\ sst' = [i \in (DOMAIN sst) \cup {ctl.cur} |->
                  IF i = ctl.cur THEN MemTableSave(mt[ctl.cur], ctl.cur) ELSE sst[i]]
    /\ ctl' = [ctl EXCEPT !.pc = "save_close"]
    /\ UNCHANGED <<mem_tables, mt, wal, ss_tables, usr, last, cmp, hist>>

(* the end of MemTable::save: close() removes the WAL file; the memtable
   keeps its handle on the unlinked file *)
CtlSaveClose ==
    /\ ctl.pc = "save_close"
    /\ wal' = [wal EXCEPT ![ctl.cur].st = "unlinked"]
    /\ ctl' = [ctl EXCEPT !.pc = "remove"]
    /\ UNCHANGED <<mem_tables, mt, sst, ss_tables, usr, last, cmp, hist>>

(* a publication that leaves the flushed memtable in mem_tables *)
CtlPublishKeep ==
    /\ ctl.pc = "remove"
    /\ ctl' = [ctl EXCEPT !.pc = "insert"]
    /\ UNCHANGED <<mem_tables, mt, wal, sst, ss_tables, usr, last, cmp, hist>>

(* publication, first statement of the closure: mem_tables.remove *)
CtlPublishRemove ==
    /\ ctl.pc = "remove"
    /\ mem_tables' = mem_tables \ {ctl.cur}
    /\ ctl' = [ctl EXCEPT !.pc = "insert"]
    /\ UNCHANGED <<mt, wal, sst, ss_tables, usr, last, cmp, hist>>

(* publication, second statement of the closure: ss_tables.insert *)
CtlPublishInsert ==
    /\ ctl.pc = "insert"
    /\ ss_tables' = ss_tables \cup {ctl.cur}
    /\ ctl' = CtlIdle
    /\ UNCHANGED <<mem_tables, mt, wal, sst, usr, last, cmp, hist>>

----------------------------------------------------------------------------
(* End of a session and LiteDb::open on the same directory *)

(* LiteDb::open on an existing directory: every .sst file is loaded, every
   .log file becomes a memtable, memtable 0 is created if there is none *)
Open ==
    LET logs == {i \in Ids : wal[i].st = "linked"}
        files == [i \in Ids |->
                     IF wal[i].st = "linked" THEN wal[i]
                     ELSE IF logs = {} /\ i = 0 THEN NewWal ELSE NoWal]
        ids == IF logs = {} THEN {0} ELSE logs
    IN /\ wal' = files
       /\ mem_tables' = ids
       /\ mt' = [i \in ids |-> MemTableOpen(files[i].items)]
       /\ ss_tables' = DOMAIN sst
       /\ ctl' = CtlIdle
       /\ cmp' = CmpIdle
       /\ usr' = UsrIdle
       /\ UNCHANGED <<sst, last>>

(* drop: close() joins the controller, whose cycle runs to its end; then
   the directory is opened again *)
CloseReopen ==
    /\ UsrFree
    /\ ctl.pc = "idle"
    /\ hist.reopens < MaxReopen
    /\ Open
    /\ hist' = [hist EXCEPT !.reopens = @ + 1, !.closed = TRUE, !.sess = {}]

(* the process dies between two calls of the caller, the controller being
   anywhere in its cycle; then the directory is opened again *)
CrashReopen ==
    /\ UsrFree
    /\ hist.reopens < MaxReopen
    /\ Open
    /\ hist' = [hist EXCEPT !.reopens = @ + 1, !.crashed = TRUE, !.sess = {}]

----------------------------------------------------------------------------

OptKeys == {None} \cup {Some(k) : k \in Keys}

(* Steps of the caller, of the controller, and the end of a session *)
UsrStart(max) ==
    \/ \E k \in Keys, v \in Values : hist.writes < max /\ SetBegin(k, v)
    \/ \E ops \in Batches : hist.writes + Len(ops) <= max /\ BatchBegin(ops)
    \/ \E k \in Keys : GetBegin(k)
    \/ \E from \in OptKeys, to \in OptKeys : ScanBegin(from, to)

UsrStep ==
    \/ WriteFirst
    \/ WriteSecond
    \/ GetSSTables
    \/ ScanMemTables

(* the steps of a flush cycle once its tick found the memtable mature *)
CtlCycle ==
    \/ CtlOpenNew
    \/ CtlSaveWalk
    \/ CtlSaveClose
    \/ CtlPublishRemove
    \/ CtlPublishInsert

CtlStep ==
    \/ CtlTick
    \/ CtlOpenNew
    \/ CtlSaveWalk
    \/ CtlSaveClose
    \/ CtlPublishRemove
    \/ CtlPublishInsert

(* Every interleaving of the caller's thread and the controller thread *)
Next ==
    \/ UsrStart(MaxWrites)
    \/ UsrStep
    \/ CtlStep
    \/ CloseReopen
    \/ CrashReopen

Spec == Init /\ [][Next]_vars

(* Operations and controller cycles one after the other: the caller is
   between two calls while a cycle runs, and no cycle starts inside a call *)
SeqUsrStart == ctl.pc = "idle" /\ UsrStart(MaxSeqWrites)

SeqUsrStep == ctl.pc = "idle" /\ UsrStep

SeqCtlStep == UsrFree /\ CtlStep

SeqNext ==
    \/ SeqUsrStart
    \/ SeqUsrStep
    \/ SeqCtlStep
    \/ CloseReopen

SeqSpec == Init /\ [][SeqNext]_vars

(* Writes only: the caller's set / delete / apply_batch calls against the
   controller thread, with restarts *)
WriteStart ==
    \/ \E k \in Keys, v \in Values : hist.writes < MaxWrites /\ SetBegin(k, v)
    \/ \E ops \in Batches : hist.writes + Len(ops) <= MaxWrites /\ BatchBegin(ops)

WriteNext ==
    \/ WriteStart
    \/ WriteFirst
    \/ WriteSecond
    \/ CtlStep
    \/ CloseReopen
    \/ CrashReopen

WriteSpec == Init /\ [][WriteNext]_vars


(* Point reads against writes: the caller's set / delete / get calls
   against the controller thread, with restarts *)
ReadStart ==
    \/ \E k \in Keys, v \in Values : hist.writes < MaxWrites /\ SetBegin(k, v)
    \/ \E k \in Keys : GetBegin(k)

ReadNext ==
    \/ ReadStart
    \/ WriteFirst
    \/ WriteSecond
    \/ GetSSTables
    \/ CtlStep
    \/ CloseReopen
    \/ CrashReopen

ReadSpec == Init /\ [][ReadNext]_vars

(* The flush under fair scheduling.  The ticker fires every next_schedule()
   and the controller thread runs its loop, so a step of the controller
   that stays possible is eventually taken; a tick that finds the front
   memtable not mature changes nothing. *)
FlushNext ==
    \/ WriteStart
    \/ WriteFirst
    \/ WriteSecond
    \/ CtlStep

FlushFairSpec == Init /\ [][FlushNext]_vars /\ WF_vars(CtlStep)

(* A failing save.  MemTable::save returns Err when the SSTable file cannot
   be created or written or synced (the file is then missing or holds the
   first records only) or when the WAL file cannot be removed; the
   controller's unwrap() then panics and its thread ends.  ctl.failed marks
   the cycle whose save failed. *)

(* the end of the controller thread at the unwrap continuing to publish *)
OnSaveErrorPublish(c) == [pc |-> "remove", cur |-> c.cur, failed |-> TRUE]

(* .save(..).unwrap() on Err: the thread panics before the publication *)
OnSaveError(c) == [pc |-> "panicked", cur |-> c.cur, failed |-> TRUE]

(* what a save interrupted after n records leaves in the file *)
PartialFile(t, n) ==
    [t EXCEPT !.data = SubSeq(t.data, 1, n), !.index = <<>>, !.bloom_filter = {}]

(* save fails before sync_all returns *)
CtlSaveFailWrite ==
    /\ ctl.pc = "save_walk"
    /\ DOMAIN mt[ctl.cur].entries # {}
    /\ \/ UNCHANGED sst
       \/ \E n \in 0..Len(MemTableSave(mt[ctl.cur], ctl.cur).data) :
              sst' = [i \in (DOMAIN sst) \cup {ctl.cur} |->
                         IF i = ctl.cur
                         THEN PartialFile(MemTableSave(mt[ctl.cur], ctl.cur), n)
                         ELSE sst[i]]
    /\ ctl' = OnSaveError(ctl)
    /\ UNCHANGED <<mem_tables, mt, wal, ss_tables, usr, last, cmp, hist>>

(* save fails in self.close(): the WAL file stays *)
CtlSaveFailClose ==
    /\ ctl.pc = "save_close"
    /\ ctl' = OnSaveError(ctl)
    /\ UNCHANGED <<mem_tables, mt, wal, sst, ss_tables, usr, last, cmp, hist>>

FailNext ==
    \/ ReadStart
    \/ WriteFirst
    \/ WriteSecond
    \/ GetSSTables
    \/ CtlStep
    \/ CtlSaveFailWrite
    \/ CtlSaveFailClose

FailSpec == Init /\ [][FailNext]_vars

(* The controller alone, under any policy.  Memtable 0 has received any
   short history of writes (overwrites count again in size_bytes); the
   policy's limits are those of the options the engine was opened with
   (hist); only the controller runs. *)
MaxHistory == 3

MaxEntriesLimit == 3

MaxSizeLimit == 4

TickValues == {TOMBSTONE, <<1>>, <<1, 1>>}

TickHistories == UNION { [1..n -> Keys \X TickValues] : n \in 0..MaxHistory }

TickInit ==
    /\ mem_tables = {0}
    /\ \E ops \in TickHistories :
           /\ mt = [i \in {0} |-> [ entries |-> MapInsertAll(EmptyMap, ops),
                                    size_bytes |-> BatchSizeBytes(ops) ]]
           /\ wal = [i \in Ids |->
                        IF i = 0 THEN [st |-> "linked", items |-> ops] ELSE NoWal]
    /\ sst = [i \in {} |-> 0]
    /\ ss_tables = {}
    /\ ctl = CtlIdle
    /\ cmp = CmpIdle
    /\ usr = UsrIdle
    /\ last = [k \in Keys |-> None]
    /\ \E entries_limit \in 1..MaxEntriesLimit, size_limit \in 1..MaxSizeLimit :
           hist = [max_entries |-> entries_limit, max_size_bytes |-> size_limit]

PolicyTick == CtlTickWith(hist.max_entries, hist.max_size_bytes)

TickNext ==
    \/ PolicyTick
    \/ CtlCycle

TickSpec == TickInit /\ [][TickNext]_vars

(* The controller under every policy the options accept: the limits are
   usize values, 0 included (create_policy takes them as they are).  The
   memtable has received any short history of writes, none included: a
   freshly opened engine. *)
AnyPolicyInit ==
    /\ mem_tables = {0}
    /\ \E ops \in TickHistories :
           /\ mt = [i \in {0} |-> [ entries |-> MapInsertAll(EmptyMap, ops),
                                    size_bytes |-> BatchSizeBytes(ops) ]]
           /\ wal = [i \in Ids |->
                        IF i = 0 THEN [st |-> "linked", items |-> ops] ELSE NoWal]
    /\ sst = [i \in {} |-> 0]
    /\ ss_tables = {}
    /\ ctl = CtlIdle
    /\ cmp = CmpIdle
    /\ usr = UsrIdle
    /\ last = [k \in Keys |-> None]
    /\ \E entries_limit \in 0..MaxEntriesLimit, size_limit \in 0..MaxSizeLimit :
           hist = [max_entries |-> entries_limit, max_size_bytes |-> size_limit]

(* the file OpenOptions .create(true) leaves when save writes nothing *)
EmptyFile(id) ==
    [ id |-> id, first_key |-> <<<<>>, 0>>, last_key |-> <<<<>>, 0>>,
      total_size |-> 0, num_entries |-> 0, data |-> <<>>, index |-> <<>>,
      bloom_filter |-> {} ]

(* MemTable::save on a memtable without entries: the file is created, the
   loop runs no round, and self.entries.back().unwrap() panics on None *)
CtlSaveEmpty ==
    /\ ctl.pc = "save_walk"
    /\ DOMAIN mt[ctl.cur].entries = {}
    /\ sst' = [i \in (DOMAIN sst) \cup {ctl.cur} |->
                  IF i = ctl.cur THEN EmptyFile(ctl.cur) ELSE sst[i]]
    /\ ctl' = [pc |-> "panicked", cur |-> ctl.cur]
    /\ UNCHANGED <<mem_tables, mt, wal, ss_tables, usr, last, cmp, hist>>

AnyPolicyNext ==
    \/ PolicyTick
    \/ CtlCycle
    \/ CtlSaveEmpty

AnyPolicySpec == AnyPolicyInit /\ [][AnyPolicyNext]_vars

(* Drop of the engine.  LiteDb::close stops the controller, then the
   compactor: each stop sends () on the worker's kill channel (bounded(1),
   written once) and joins the thread.  The caller makes no call after drop. *)

(* the signal is in the controller's / the compactor's kill channel *)
CtlKillPending == usr.op = "close" /\ usr.pc = "ctl_join" /\ ctl.pc # "exited"
CmpKillPending == usr.op = "close" /\ usr.pc = "cmp_join" /\ cmp.pc # "exited"

(* the arm of select! that receives the signal and never leaves the loop *)
OnKillContinue(thread) == thread

(* select!: recv(kill_signal_receiver) -> _ => break; the thread ends *)
OnKill(thread) == [thread EXCEPT !.pc = "exited"]

(* Drop for LiteDb: drop calls close *)
CloseBegin ==
    /\ UsrFree
    /\ usr' = [UsrIdle EXCEPT !.pc = "ctl_stop", !.op = "close"]
    /\ UNCHANGED <<mem_tables, mt, wal, sst, ss_tables, ctl, cmp, last, hist>>

(* MemTableController::stop: kill_signal_sender.send(()) *)
CloseSendCtl ==
    /\ usr.op = "close" /\ usr.pc = "ctl_stop"
    /\ usr' = [usr EXCEPT !.pc = "ctl_join", !.quiet = (ctl.pc = "idle")]
    /\ UNCHANGED <<mem_tables, mt, wal, sst, ss_tables, ctl, cmp, last, hist>>

(* the controller in select! takes the kill signal (a ready tick may be
   taken instead: CtlTick) *)
CtlKill ==
    /\ ctl.pc = "idle"
    /\ CtlKillPending
    /\ ctl' = OnKill(ctl)
    /\ UNCHANGED <<mem_tables, mt, wal, sst, ss_tables, cmp, usr, last, hist>>

(* MemTableController::stop: task_handle.join() returns; Compactor::stop
   is next *)
CloseJoinCtl ==
    /\ usr.op = "close" /\ usr.pc = "ctl_join"
    /\ ctl.pc = "exited"
    /\ usr' = [usr EXCEPT !.pc = "cmp_stop"]
    /\ UNCHANGED <<mem_tables, mt, wal, sst, ss_tables, ctl, cmp, last, hist>>

(* Compactor::stop: kill_signal_sender.send(()) *)
CloseSendCmp ==
    /\ usr.op = "close" /\ usr.pc = "cmp_stop"
    /\ usr' = [usr EXCEPT !.pc = "cmp_join"]
    /\ UNCHANGED <<mem_tables, mt, wal, sst, ss_tables, ctl, cmp, last, hist>>

(* the compactor's tick: it collects the SSTables for policy.evaluate *)
CmpTick ==
    /\ cmp.pc = "select"
    /\ cmp' = [cmp EXCEPT !.pc = "evaluate"]
    /\ UNCHANGED <<mem_tables, mt, wal, sst, ss_tables, ctl, usr, last, hist>>

(* SizeTieredCompactor::evaluate: the groups of SSTables to merge, none *)
Evaluate(candidate_ss_tables) == {}

(* do_compaction: the tables to insert and the tables to remove, both empty *)
DoCompaction(compaction_groups) == [new_tables |-> {}, old_tables |-> {}]

(* a round that removes the oldest SSTable and inserts nothing *)
CmpRoundDropOldest(ss) == IF ss = {} THEN ss ELSE ss \ {Front(ss)}

(* one round of the compactor's loop after its tick: ss_tables once the
   round is over *)
CmpRound(ss) ==
    LET compaction_groups == Evaluate(ss)
    IN IF compaction_groups = {} THEN ss
       ELSE LET r == DoCompaction(compaction_groups)
            IN (ss \ r.old_tables) \cup r.new_tables

(* the round of the loop: evaluate returns no group, and the loop continues *)
CmpEvaluate ==
    /\ cmp.pc = "evaluate"
    /\ cmp' = [cmp EXCEPT !.pc = "select"]
    /\ ss_tables' = CmpRound(ss_tables)
    /\ UNCHANGED <<mem_tables, mt, wal, sst, ctl, usr, last, hist>>

(* the compactor in select! takes the kill signal *)
CmpKill ==
    /\ cmp.pc = "select"
    /\ CmpKillPending
    /\ cmp' = OnKill(cmp)
    /\ UNCHANGED <<mem_tables, mt, wal, sst, ss_tables, ctl, usr, last, hist>>

(* Compactor::stop: join returns; close and drop return *)
CloseJoinCmp ==
    /\ usr.op = "close" /\ usr.pc = "cmp_join"
    /\ cmp.pc = "exited"
    /\ usr' = [usr EXCEPT !.pc = "dropped"]
    /\ UNCHANGED <<mem_tables, mt, wal, sst, ss_tables, ctl, cmp, last, hist>>

CloseNext ==
    \/ WriteStart
    \/ WriteFirst
    \/ WriteSecond
    \/ CtlTick
    \/ CtlCycle
    \/ CmpTick
    \/ CmpEvaluate
    \/ CloseBegin
    \/ CloseSendCtl
    \/ CtlKill
    \/ CloseJoinCtl
    \/ CloseSendCmp
    \/ CmpKill
    \/ CloseJoinCmp

(* Scheduling: every thread that can take a step eventually takes one; a
   select! with several ready operations picks one of them at random, so a
   worker that is in select! again and again with the kill signal ready
   eventually takes it. *)
CloseFairSpec ==
    /\ Init
    /\ [][CloseNext]_vars
    /\ WF_vars(CloseSendCtl) /\ WF_vars(CloseJoinCtl)
    /\ WF_vars(CloseSendCmp) /\ WF_vars(CloseJoinCmp)
    /\ WF_vars(CtlCycle) /\ WF_vars(CmpEvaluate)
    /\ SF_vars(CtlKill) /\ SF_vars(CmpKill)

(* Drop against a controller thread that has died.  The thread owns the
   receiving end of the kill channel: when it panics the receiver is dropped
   and the channel is disconnected. *)

(* MemTable::open(dir, id + 1).unwrap() on Err: the thread panics *)
CtlOpenNewFail ==
    /\ ctl.pc = "open_new"
    /\ ctl' = OnSaveError(ctl)
    /\ UNCHANGED <<mem_tables, mt, wal, sst, ss_tables, usr, last, cmp, hist>>

(* MemTableController::stop: kill_signal_sender.send(()) on the connected
   channel *)
CloseSendCtlLive ==
    /\ ctl.pc # "panicked"
    /\ CloseSendCtl

(* kill_signal_sender.send(()).unwrap() on the disconnected channel: send
   returns Err and the unwrap panics in drop *)
CloseSendCtlDead ==
    /\ usr.op = "close" /\ usr.pc = "ctl_stop"
    /\ ctl.pc = "panicked"
    /\ usr' = [usr EXCEPT !.pc = "panicked"]
    /\ UNCHANGED <<mem_tables, mt, wal, sst, ss_tables, ctl, cmp, last, hist>>

(* task_handle.join().unwrap() on a thread that panicked after the signal
   was sent: join returns Err and the unwrap panics in drop *)
CloseJoinCtlDead ==
    /\ usr.op = "close" /\ usr.pc = "ctl_join"
    /\ ctl.pc = "panicked"
    /\ usr' = [usr EXCEPT !.pc = "panicked"]
    /\ UNCHANGED <<mem_tables, mt, wal, sst, ss_tables, ctl, cmp, last, hist>>

DropFailNext ==
    \/ WriteStart
    \/ WriteFirst
    \/ WriteSecond
    \/ CtlStep
    \/ CtlOpenNewFail
    \/ CtlSaveFailClose
    \/ CmpTick
    \/ CmpEvaluate
    \/ CloseBegin
    \/ CloseSendCtlLive
    \/ CloseSendCtlDead
    \/ CtlKill
    \/ CloseJoinCtl
    \/ CloseJoinCtlDead
    \/ CloseSendCmp
    \/ CmpKill
    \/ CloseJoinCmp

DropFailSpec == Init /\ [][DropFailNext]_vars

(* The merging iterator alone: memtables of any content, each built by one
   set per entry as create_mem_table does, scanned oldest first and merged *)
CombKeys == {<<1>>, <<1, 1>>, <<2>>}
CombValues == {TOMBSTONE, <<1>>}

CombMaps == UNION { [ks -> CombValues] : ks \in SUBSET CombKeys }

CreateMemTable(entries) ==
    LET items == MemTableScan([entries |-> entries, size_bytes |-> 0], None, None)
    IN [ entries |-> entries, size_bytes |-> BatchSizeBytes(items) ]

CombInit ==
    /\ \E n \in 1..MaxSources :
           /\ mem_tables = 0..(n - 1)
           /\ \E data \in [0..(n - 1) -> CombMaps] :
                  /\ mt = [i \in 0..(n - 1) |-> CreateMemTable(data[i])]
                  /\ wal = [i \in 0..(n - 1) |->
                               [ st |-> "linked",
                                 items |-> MemTableScan(mt[i], None, None) ]]
    /\ sst = [i \in {} |-> 0]
    /\ ss_tables = {}
    /\ ctl = CtlIdle
    /\ cmp = CmpIdle
    /\ usr = UsrIdle
    /\ last = [k \in Keys |-> None]
    /\ hist = [ writes |-> 0, reopens |-> 0, crashed |-> FALSE, closed |-> FALSE,
                sess |-> {}, by_batch |-> {} ]

(* the sources handed to CombineIterator::try_new: one scan(None, None) per
   memtable, in the order of the vector *)
CombSources ==
    LET ml == SortedIds(mem_tables)
    IN [i \in 1..Len(ml) |-> MemTableScan(mt[ml[i]], None, None)]

(* CombineIterator::try_new(iterators) and the iterator driven to its end *)
CombineRun ==
    /\ usr.pc = "idle"
    /\ usr' = [UsrIdle EXCEPT !.pc = "done", !.op = "combine",
                              !.obs_mem = mem_tables,
                              !.items = CombineCollect(TryNew(CombSources))]
    /\ UNCHANGED <<mem_tables, mt, wal, sst, ss_tables, ctl, last, cmp, hist>>

CombNext == CombineRun

CombSpec == CombInit /\ [][CombNext]_vars

(* Recovery of one WAL file.  The directory holds the file of memtable 0:
   the records appended to it, then damaged or not (hist.damage): cut inside
   record hist.at (a torn tail), or record hist.at stored with a checksum
   that is not the CRC of its key and value. *)
WalKeys == {<<>>, <<1>>}
WalValues == {TOMBSTONE, <<1>>}

WalRecords == UNION { [1..n -> WalKeys \X WalValues] : n \in 1..MaxWalRecords }

WrongChecksums(k, v) == {0, crc32(k, v) + 1} \ {crc32(k, v)}

WalDirectory(items, damage, at, bytes) ==
    /\ wal = [i \in {0} |-> [st |-> "linked", items |-> items, bytes |-> bytes]]
    /\ hist = [damage |-> damage, at |-> at]

WalInit ==
    /\ \E items \in WalRecords :
           \/ WalDirectory(items, "none", 0, WalBytes(items))
           \/ \E j \in 1..Len(items) :
                  LET rec == EncodeLogItem(LogItemNew(items[j][1], items[j][2]))
                  IN \E cut \in 1..(Len(rec) - 1) :
                         WalDirectory(items, "torn", j,
                                      WalBytes(SubSeq(items, 1, j - 1))
                                          \o SubSeq(rec, 1, cut))
           \/ \E j \in 1..Len(items) :
                  \E c \in WrongChecksums(items[j][1], items[j][2]) :
                      WalDirectory(items, "checksum", j,
                                   WalBytes(SubSeq(items, 1, j - 1))
                                       \o EncodeLogItem(<<items[j][1], items[j][2], c>>)
                                       \o WalBytes(SubSeq(items, j + 1, Len(items))))
    /\ mem_tables = {}
    /\ mt = [i \in {} |-> 0]
    /\ sst = [i \in {} |-> 0]
    /\ ss_tables = {}
    /\ ctl = CtlIdle
    /\ cmp = CmpIdle
    /\ usr = UsrIdle
    /\ last = [k \in Keys |-> None]

(* LiteDb::open on the directory: MemTable::open(dir, 0) replays the file;
   an error of the replay is open's error *)
WalOpen ==
    /\ usr.pc = "idle"
    /\ LET r == WalReplay(wal[0].bytes)
       IN IF r.err
          THEN /\ usr' = [UsrIdle EXCEPT !.pc = "done", !.op = "open",
                                         !.res = <<"CorruptedData">>]
               /\ UNCHANGED <<mem_tables, mt>>
          ELSE /\ usr' = [UsrIdle EXCEPT !.pc = "done", !.op = "open",
                                         !.res = <<"Ok">>]
               /\ mem_tables' = {0}
               /\ mt' = [i \in {0} |->
                            [ entries |-> MapInsertAll(EmptyMap, r.items),
                              size_bytes |-> 0 ]]
    /\ UNCHANGED <<wal, sst, ss_tables, ctl, last, cmp, hist>>

(* WriteAheadLogger::iter() driven to its end: the records it yields, and
   <<"Err">> when it ended with an error *)
WalIterate ==
    /\ usr.pc = "idle"
    /\ LET r == WalReplay(wal[0].bytes)
       IN usr' = [UsrIdle EXCEPT !.pc = "done", !.op = "iter", !.items = r.items,
                                 !.res = IF r.err THEN <<"Err">> ELSE None]
    /\ UNCHANGED <<mem_tables, mt, wal, sst, ss_tables, ctl, last, cmp, hist>>

WalNext ==
    \/ WalOpen
    \/ WalIterate

WalSpec == WalInit /\ [][WalNext]_vars

----------------------------------------------------------------------------
(* SSTables on their own.  Memtable 0 holds any entries (keys and values of
   several lengths, so records of several sizes); it is saved with any
   sparse_index_range_size; the file is opened again; keys are looked up in
   the table save returned or in the table open returned (usr.res). *)

MaxRangeSize == 6

TableKeys == {<<>>, <<1>>, <<1, 1>>, <<2>>}

TableValues == {TOMBSTONE, <<1>>, <<1, 1>>}

TableMaps == UNION { [ks -> TableValues] : ks \in (SUBSET TableKeys) \ {{}} }

TableInit ==
    /\ mem_tables = {0}
    /\ \E entries \in TableMaps :
           /\ mt = [i \in {0} |-> CreateMemTable(entries)]
           /\ wal = [i \in {0} |->
                        [ st |-> "linked",
                          items |-> MemTableScan(mt[i], None, None) ]]
    /\ sst = [i \in {} |-> 0]
    /\ ss_tables = {}
    /\ \E range_size \in 1..MaxRangeSize :
           ctl = [pc |-> "idle", cur |-> 0, sparse_index_range_size |-> range_size]
    /\ cmp = CmpIdle
    /\ usr = UsrIdle
    /\ last = [key |-> None, res |-> None, offset |-> None, on |-> "none"]
    /\ hist = [on |-> "none", from |-> None, to |-> None, items |-> <<>>]

(* MemTable::save: the file is written, the WAL removed, the table returned *)
TableSave ==
    /\ usr.op = "none"
    /\ LET t == SaveWith(mt[0], 0, ctl.sparse_index_range_size)
       IN /\ sst' = [i \in {0} |-> SSTableFile(t)]
          /\ usr' = [UsrIdle EXCEPT !.pc = "done", !.op = "save", !.res = Some(t)]
    /\ wal' = [wal EXCEPT ![0].st = "unlinked"]
    /\ UNCHANGED <<mem_tables, mt, ss_tables, ctl, last, cmp, hist>>

(* SSTable::open on the file save left *)
TableOpen ==
    /\ usr.op = "save"
    /\ usr' = [UsrIdle EXCEPT !.pc = "done", !.op = "open",
                              !.res = Some(SSTableOpen(sst[0]))]
    /\ UNCHANGED <<mem_tables, mt, wal, sst, ss_tables, ctl, last, cmp, hist>>

(* SSTable::get(table, k); last.offset is the offset SSTableIterator::new
   took from the index when the Bloom filter let the lookup through, and
   last.on tells which table was looked up *)
TableGet(k) ==
    /\ usr.op \in {"save", "open"}
    /\ LET t == usr.res[1]
       IN last' = [ key |-> Some(k), res |-> SSTableGet(t, k),
                    offset |-> IF PotentiallyContainsKey(t, k)
                               THEN GetOffset(t.index, k) ELSE None,
                    on |-> usr.op ]
    /\ UNCHANGED <<mem_tables, mt, wal, sst, ss_tables, ctl, usr, cmp, hist>>

TableBounds == {None} \cup {Some(k) : k \in TableKeys}

(* Scannable::scan(from, to) on the table, the iterator driven to its end;
   hist keeps the last scan: its table, its bounds and its items *)
TableScan(from, to) ==
    /\ usr.op \in {"save", "open"}
    /\ hist' = [ on |-> usr.op, from |-> from, to |-> to,
                 items |-> SSTableScan(usr.res[1], from, to) ]
    /\ UNCHANGED <<mem_tables, mt, wal, sst, ss_tables, ctl, usr, last, cmp>>

TableNext ==
    \/ TableSave
    \/ TableOpen
    \/ \E k \in TableKeys : TableGet(k)

TableSpec == TableInit /\ [][TableNext]_vars

(* the same tables, scanned *)
ScanNext ==
    \/ TableSave
    \/ TableOpen
    \/ \E from \in TableBounds, to \in TableBounds : TableScan(from, to)

ScanSpec == TableInit /\ [][ScanNext]_vars

(* ------------------------------------------------------------------ *)
(* SSTableIterator, one call of next at a time                         *)
(* ------------------------------------------------------------------ *)

MaxIterCalls == 6

(* the offsets the loop of SSTableIterator::next hands to decode, from
   running_offset on: the loop goes on while the record is below the start
   key, and ends at the first decode that fails *)
RECURSIVE DecodeOffsets(_, _, _)
DecodeOffsets(t, running_offset, start_key_opt) ==
    LET i == RecordAt(t, running_offset)
    IN IF i = 0 THEN {running_offset}
       ELSE IF start_key_opt # None /\ KeyLess(t.data[i][1], start_key_opt[1])
       THEN {running_offset}
            \cup DecodeOffsets(t, running_offset
                                     + EncLen(t.data[i][1], t.data[i][2]),
                               start_key_opt)
       ELSE {running_offset}

(* next without the test of the offset against the last key's offset *)
SSTableIteratorNextUnguarded(t, offset_opt, start_key_opt, stop_key_opt) ==
    IF offset_opt = None
    THEN [offset_opt |-> offset_opt, out |-> None, decoded |-> {}]
    ELSE LET i == IterLoop(t, offset_opt[1], start_key_opt, stop_key_opt)
             decoded == DecodeOffsets(t, offset_opt[1], start_key_opt)
         IN IF i = 0
            THEN [offset_opt |-> offset_opt, out |-> None, decoded |-> decoded]
            ELSE IF i = -1
            THEN [offset_opt |-> offset_opt, out |-> Some(<<"Err">>),
                  decoded |-> decoded]
            ELSE [offset_opt |-> Some(OffsetOf(t.data, i + 1)),
                  out |-> Some(<<"Ok", t.data[i][1], t.data[i][2]>>),
                  decoded |-> decoded]

(* One call of SSTableIterator::next: the iterator's offset_opt after the
   call, what the call returns, and the offsets it decoded at.  Only a
   yielded record moves offset_opt. *)
SSTableIteratorNext(t, offset_opt, start_key_opt, stop_key_opt) ==
    IF offset_opt = None
    THEN [offset_opt |-> offset_opt, out |-> None, decoded |-> {}]
    ELSE IF offset_opt[1] > t.last_key[2]
    THEN [offset_opt |-> offset_opt, out |-> None, decoded |-> {}]
    ELSE LET i == IterLoop(t, offset_opt[1], start_key_opt, stop_key_opt)
             decoded == DecodeOffsets(t, offset_opt[1], start_key_opt)
         IN IF i = 0
            THEN [offset_opt |-> offset_opt, out |-> None, decoded |-> decoded]
            ELSE IF i = -1
            THEN [offset_opt |-> offset_opt, out |-> Some(<<"Err">>),
                  decoded |-> decoded]
            ELSE [offset_opt |-> Some(OffsetOf(t.data, i + 1)),
                  out |-> Some(<<"Ok", t.data[i][1], t.data[i][2]>>),
                  decoded |-> decoded]

(* SSTableIterator::new(table, from, to) on the table save returned; last
   holds the iterator and what is known of its calls: how many, how many
   yielded a record, whether a call before the latest returned None, and
   the offsets the latest call decoded at *)
IterNew(from, to) ==
    /\ usr.op = "save"
    /\ last' = [ key |-> None, res |-> None, on |-> "iter",
                 offset |-> IF from # None
                            THEN GetOffset(usr.res[1].index, from[1])
                            ELSE Some(0),
                 from |-> from, to |-> to,
                 calls |-> 0, yielded |-> 0, ended |-> FALSE, decoded |-> {} ]
    /\ UNCHANGED <<mem_tables, mt, wal, sst, ss_tables, ctl, usr, cmp, hist>>

(* Iterator::next on the iterator *)
IterCall ==
    /\ last.on = "iter"
    /\ last.calls < MaxIterCalls
    /\ LET r == SSTableIteratorNext(usr.res[1], last.offset, last.from, last.to)
       IN last' = [last EXCEPT !.offset = r.offset_opt,
                               !.res = r.out,
                               !.decoded = r.decoded,
                               !.calls = @ + 1,
                               !.yielded = IF r.out # None THEN @ + 1 ELSE @,
                               !.ended = @ \/ (last.calls > 0 /\ last.res = None)]
    /\ UNCHANGED <<mem_tables, mt, wal, sst, ss_tables, ctl, usr, cmp, hist>>

IterNext ==
    \/ TableSave
    \/ \E from \in TableBounds, to \in TableBounds : IterNew(from, to)
    \/ IterCall

IterSpec == TableInit /\ [][IterNext]_vars

----------------------------------------------------------------------------
(* One memtable, written through MemTable::set and MemTable::apply_batch,
   with writes that fail in the WAL, saved and reopened.  hist.applied is the
   sequence of operations that returned Ok on the current MemTable object,
   hist.replayed the records its open replayed. *)

(* records in the WAL file, and writes that fail *)
MaxApplied == 3
MaxFailed == 1

(* counts each key of the batch once, with its final value *)
BatchSizeBytesDistinct(ops) ==
    LET m == MapInsertAll(EmptyMap, ops)
    IN BatchSizeBytes(MemTableScan([entries |-> m, size_bytes |-> 0], None, None))

(* BatchOperations built by insert / delete calls: size_bytes is the running
   sum kept by the two methods *)
BatchOperationsSizeBytes(ops) == BatchSizeBytes(ops)

(* the values written, a delete's tombstone among them, and the batches *)
SizeValues == {TOMBSTONE, <<1>>}

SizeBatches == UNION { [1..n -> Keys \X SizeValues] : n \in 1..MaxBatch }

SizeInit ==
    /\ mem_tables = {0}
    /\ mt = [i \in {0} |-> MemTableOpen(<<>>)]
    /\ wal = [i \in Ids |-> IF i = 0 THEN NewWal ELSE NoWal]
    /\ sst = [i \in {} |-> 0]
    /\ ss_tables = {}
    /\ ctl = CtlIdle
    /\ cmp = CmpIdle
    /\ usr = UsrIdle
    /\ last = [k \in Keys |-> None]
    /\ hist = [applied |-> <<>>, replayed |-> <<>>, failed |-> 0, reopens |-> 0]

(* MemTable::set returning Ok: wal.append, fetch_add, entries.insert *)
SizeSet(k, v) ==
    /\ Len(wal[0].items) < MaxApplied
    /\ wal' = [wal EXCEPT ![0].items = WalAppend(@, k, v)]
    /\ mt' = [mt EXCEPT ![0] =
                 [ entries |-> MapInsert(@.entries, k, v),
                   size_bytes |-> @.size_bytes + Len(k) + Len(v) ]]
    /\ hist' = [hist EXCEPT !.applied = Append(@, <<k, v>>)]
    /\ usr' = [UsrIdle EXCEPT !.pc = "done", !.op = "set",
                              !.res = <<"Ok">>]
    /\ UNCHANGED <<mem_tables, sst, ss_tables, ctl, cmp, last>>

(* the error of the WAL reported after fetch_add and the inserts have run *)
OnWalErrorApplied(m, ops) ==
    [ entries |-> MapInsertAll(m.entries, ops),
      size_bytes |-> m.size_bytes + BatchOperationsSizeBytes(ops) ]

(* self.wal.append(..)? and self.wal.apply_batch(..)?: on Err the method
   returns at once, fetch_add and the inserts below it do not run *)
OnWalError(m, ops) == m

(* MemTable::set when wal.append fails: no whole record reached the file *)
SizeSetFail(k, v) ==
    /\ hist.failed < MaxFailed
    /\ mt' = [mt EXCEPT ![0] = OnWalError(@, <<<<k, v>>>>)]
    /\ hist' = [hist EXCEPT !.failed = @ + 1]
    /\ usr' = [UsrIdle EXCEPT !.pc = "done", !.op = "set",
                              !.res = <<"Err">>]
    /\ UNCHANGED <<mem_tables, wal, sst, ss_tables, ctl, cmp, last>>

(* MemTable::apply_batch returning Ok *)
SizeBatch(ops) ==
    /\ Len(wal[0].items) + Len(ops) <= MaxApplied
    /\ wal' = [wal EXCEPT ![0].items = WalApplyBatch(@, ops)]
    /\ mt' = [mt EXCEPT ![0] =
                 [ entries |-> MapInsertAll(@.entries, ops),
                   size_bytes |-> @.size_bytes + BatchOperationsSizeBytes(ops) ]]
    /\ hist' = [hist EXCEPT !.applied = @ \o ops]
    /\ usr' = [UsrIdle EXCEPT !.pc = "done", !.op = "batch",
                              !.res = <<"Ok">>]
    /\ UNCHANGED <<mem_tables, sst, ss_tables, ctl, cmp, last>>

(* MemTable::apply_batch when wal.apply_batch fails after n whole records:
   the ? returns before fetch_add and the inserts *)
SizeBatchFail(ops, n) ==
    /\ hist.failed < MaxFailed
    /\ Len(wal[0].items) + n <= MaxApplied
    /\ wal' = [wal EXCEPT ![0].items = WalApplyBatch(@, SubSeq(ops, 1, n))]
    /\ mt' = [mt EXCEPT ![0] = OnWalError(@, ops)]
    /\ hist' = [hist EXCEPT !.failed = @ + 1]
    /\ usr' = [UsrIdle EXCEPT !.pc = "done", !.op = "batch",
                              !.res = <<"Err">>]
    /\ UNCHANGED <<mem_tables, sst, ss_tables, ctl, cmp, last>>

(* MemTable::save of the memtable, then SSTable metadata as check_ss_table
   reads it *)
SizeSave ==
    /\ DOMAIN mt[0].entries # {}
    /\ wal[0].st = "linked"
    /\ LET t == MemTableSave(mt[0], 0)
       IN /\ sst' = [i \in {0} |-> SSTableFile(t)]
          /\ usr' = [UsrIdle EXCEPT !.pc = "done", !.op = "save", !.res = Some(t)]
    /\ wal' = [wal EXCEPT ![0].st = "unlinked"]
    /\ UNCHANGED <<mem_tables, mt, ss_tables, ctl, cmp, last, hist>>

(* the object is dropped and MemTable::open builds a new one from the WAL *)
SizeReopen ==
    /\ hist.reopens < MaxReopen
    /\ wal[0].st = "linked"
    /\ mt' = [mt EXCEPT ![0] = MemTableOpen(wal[0].items)]
    /\ hist' = [hist EXCEPT !.applied = <<>>, !.replayed = WalIter(wal[0].items),
                            !.reopens = @ + 1]
    /\ usr' = [UsrIdle EXCEPT !.pc = "done", !.op = "open"]
    /\ UNCHANGED <<mem_tables, wal, sst, ss_tables, ctl, cmp, last>>

(* the process dies inside WriteAheadLogger::apply_batch, n whole records
   of the batch written to the file (each encode_into_writer writes to the
   File); then MemTable::open builds the memtable from the WAL.  usr.pre
   keeps what the file held for the memtable before the batch. *)
SizeBatchCrash(ops, n) ==
    /\ hist.reopens < MaxReopen
    /\ wal[0].st = "linked"
    /\ Len(wal[0].items) + n <= MaxApplied
    /\ LET items == WalApplyBatch(wal[0].items, SubSeq(ops, 1, n))
       IN /\ wal' = [wal EXCEPT ![0].items = items]
          /\ mt' = [mt EXCEPT ![0] = MemTableOpen(items)]
          /\ hist' = [hist EXCEPT !.applied = <<>>, !.replayed = WalIter(items),
                                  !.reopens = @ + 1]
    /\ usr' = [UsrIdle EXCEPT !.pc = "done", !.op = "crash_batch", !.ops = ops,
                              !.pre = <<MemTableOpen(wal[0].items).entries>>]
    /\ UNCHANGED <<mem_tables, sst, ss_tables, ctl, cmp, last>>

SizeNext ==
    \/ \E k \in Keys, v \in SizeValues : SizeSet(k, v)
    \/ \E k \in Keys, v \in SizeValues : SizeSetFail(k, v)
    \/ \E ops \in SizeBatches : SizeBatch(ops)
    \/ \E ops \in SizeBatches : \E n \in 0..(Len(ops) - 1) : SizeBatchFail(ops, n)
    \/ SizeSave
    \/ SizeReopen

SizeSpec == SizeInit /\ [][SizeNext]_vars

(* The same memtable with batches that fail and batches the process dies in *)
BatchCrashNext ==
    \/ \E k \in Keys, v \in SizeValues : SizeSet(k, v)
    \/ \E ops \in SizeBatches : SizeBatch(ops)
    \/ \E ops \in SizeBatches : \E n \in 0..(Len(ops) - 1) : SizeBatchFail(ops, n)
    \/ \E ops \in SizeBatches : \E n \in 0..Len(ops) : SizeBatchCrash(ops, n)

BatchCrashSpec == SizeInit /\ [][BatchCrashNext]_vars

(* Point reads and writes against the controller thread and the compactor
   thread *)
CompactNext ==
    \/ ReadStart
    \/ WriteFirst
    \/ WriteSecond
    \/ GetSSTables
    \/ CtlStep
    \/ CmpTick
    \/ CmpEvaluate

CompactSpec == Init /\ [][CompactNext]_vars

(* The merging iterator over sources that can fail.  An item of a source is
   <<key, value, ok>>; ok = FALSE is the Err a source yields (a record of an
   SSTable that does not decode).  last holds the CombineIterator, usr.res
   what the last call of next returned, hist.errored whether an earlier call
   returned an error. *)
MaxCalls == 4

MergeKeys == {<<1>>, <<2>>}

MergeSources ==
    { [i \in 1..(Len(SortedKeys(ks)) + IF fails THEN 1 ELSE 0) |->
          IF i <= Len(SortedKeys(ks)) THEN <<SortedKeys(ks)[i], <<1>>, TRUE>>
          ELSE <<<<>>, <<>>, FALSE>>] : ks \in SUBSET MergeKeys, fails \in BOOLEAN }

(* CombineIterator::advance with its result: result? returns the error and
   pushes nothing *)
AdvanceResult(c, idx) ==
    IF c.iterators[idx] = <<>> THEN [c |-> c, err |-> FALSE]
    ELSE LET result == Head(c.iterators[idx])
             rest == [c.iterators EXCEPT ![idx] = Tail(@)]
         IN IF result[3]
            THEN [ c |-> [ iterators |-> rest,
                           sorter |-> c.sorter \cup {<<idx, result[1], result[2]>>} ],
                   err |-> FALSE ]
            ELSE [ c |-> [iterators |-> rest, sorter |-> c.sorter], err |-> TRUE ]

(* CombineIterator::try_new over fallible sources *)
RECURSIVE TryNewResult(_, _)
TryNewResult(c, idx) ==
    IF idx > Len(c.iterators) THEN [c |-> c, err |-> FALSE]
    ELSE LET a == AdvanceResult(c, idx)
         IN IF a.err THEN a ELSE TryNewResult(a.c, idx + 1)

(* the while loop of next over fallible sources *)
RECURSIVE SkipSameKeyResult(_, _)
SkipSameKeyResult(c, key) ==
    IF c.sorter = {} THEN [c |-> c, err |-> FALSE]
    ELSE LET entry == HeapTop(c.sorter)
         IN IF entry[2] # key THEN [c |-> c, err |-> FALSE]
            ELSE LET a == AdvanceResult([c EXCEPT !.sorter = @ \ {entry}], entry[1])
                 IN IF a.err THEN a ELSE SkipSameKeyResult(a.c, key)

(* CombineIterator::next: the iterator after the call and what it returns *)
CombineIteratorNext(c) ==
    IF c.sorter = {} THEN [c |-> c, out |-> None]
    ELSE LET item == HeapTop(c.sorter)
             a == AdvanceResult([c EXCEPT !.sorter = @ \ {item}], item[1])
             s == SkipSameKeyResult(a.c, item[2])
         IN IF a.err THEN [c |-> a.c, out |-> Some(<<"Err">>)]
            ELSE IF s.err THEN [c |-> s.c, out |-> Some(<<"Err">>)]
            ELSE [c |-> s.c, out |-> Some(<<"Ok", item[2], item[3]>>)]

MergeInit ==
    /\ mem_tables = {}
    /\ mt = [i \in {} |-> 0]
    /\ wal = [i \in {} |-> 0]
    /\ sst = [i \in {} |-> 0]
    /\ ss_tables = {}
    /\ ctl = CtlIdle
    /\ cmp = CmpIdle
    /\ usr = UsrIdle
    /\ \E n \in 1..MaxSources : \E iterators \in [1..n -> MergeSources] :
           last = [iterators |-> iterators, sorter |-> {}]
    /\ hist = [calls |-> 0, errored |-> FALSE]

(* CombineIterator::try_new(iterators) *)
MergeTryNew ==
    /\ usr.pc = "idle"
    /\ LET r == TryNewResult(last, 1)
       IN /\ last' = r.c
          /\ usr' = IF r.err
                    THEN [UsrIdle EXCEPT !.pc = "done", !.op = "try_new",
                                         !.res = Some(<<"Err">>)]
                    ELSE [UsrIdle EXCEPT !.pc = "iter", !.op = "try_new"]
    /\ UNCHANGED <<mem_tables, mt, wal, sst, ss_tables, ctl, cmp, hist>>

(* one call of next on the iterator *)
MergeCallNext ==
    /\ usr.pc = "iter"
    /\ hist.calls < MaxCalls
    /\ LET r == CombineIteratorNext(last)
       IN /\ last' = r.c
          /\ usr' = [usr EXCEPT !.op = "next", !.res = r.out]
          /\ hist' = [ calls |-> hist.calls + 1,
                       errored |-> hist.errored \/ r.out = Some(<<"Err">>) ]
    /\ UNCHANGED <<mem_tables, mt, wal, sst, ss_tables, ctl, cmp>>

MergeNext == MergeTryNew \/ MergeCallNext

MergeSpec == MergeInit /\ [][MergeNext]_vars

(* Point reads over SSTables with a damaged data region.  hist.damaged[i]
   is the record of table i that no longer decodes (0: none): the bytes of
   the file changed after save wrote them.  A LiteDbResult is <<"Ok", x>> or
   <<"Err">>. *)
CorruptValues == {TOMBSTONE, <<1>>}

CorruptMaps == UNION { [ks -> CorruptValues] : ks \in (SUBSET Keys) \ {{}} }

(* SSTableIterator::next inside the for loop of SSTable::get, from record i:
   decode comes first, then the skip of keys below the start key, then the
   tests of the loop *)
RECURSIVE SSTableGetFrom(_, _, _, _)
SSTableGetFrom(t, damaged, i, key) ==
    IF i > Len(t.data) THEN <<"Ok", None>>
    ELSE IF i = damaged THEN <<"Err">>
    ELSE IF KeyLess(t.data[i][1], key) THEN SSTableGetFrom(t, damaged, i + 1, key)
    ELSE IF KeyLess(key, t.data[i][1]) THEN <<"Ok", None>>
    ELSE IF t.data[i][2] = TOMBSTONE THEN <<"Ok", None>>
    ELSE <<"Ok", Some(t.data[i][2])>>

(* SSTable::get with its result *)
SSTableGetResult(t, damaged, key) ==
    IF ~PotentiallyContainsKey(t, key) THEN <<"Ok", None>>
    ELSE LET offset_opt == GetOffset(t.index, key)
         IN IF offset_opt = None \/ offset_opt[1] > t.last_key[2]
            THEN <<"Ok", None>>
            ELSE SSTableGetFrom(t, damaged, RecordAt(t, offset_opt[1]), key)

(* the for loop of LiteDb::get: if let Ok(Some(value)) = SSTable::get(..)
   answers, anything else lets the loop go on; failed tells that a call
   returned Err *)
RECURSIVE GetProbeResult(_, _, _, _)
GetProbeResult(ids, files, damaged, key) ==
    IF ids = <<>> THEN [res |-> <<"Ok", None>>, failed |-> FALSE]
    ELSE LET r == SSTableGetResult(files[Head(ids)], damaged[Head(ids)], key)
         IN IF r # <<"Err">> /\ r[2] # None
            THEN [res |-> <<"Ok", Resolve(r[2][1])>>, failed |-> FALSE]
            ELSE LET rest == GetProbeResult(Tail(ids), files, damaged, key)
                 IN [res |-> rest.res, failed |-> rest.failed \/ r = <<"Err">>]

CorruptInit ==
    /\ \E n \in 1..MaxId :
           /\ mem_tables = {n}
           /\ mt = [i \in {n} |-> MemTableOpen(<<>>)]
           /\ wal = [i \in {n} |-> NewWal]
           /\ ss_tables = 0..(n - 1)
           /\ \E data \in [0..(n - 1) -> CorruptMaps] :
                  sst = [i \in 0..(n - 1) |->
                            MemTableSave(CreateMemTable(data[i]), i)]
           /\ \E damaged \in [0..(n - 1) -> 0..Cardinality(Keys)] :
                  /\ \A i \in 0..(n - 1) : damaged[i] <= Len(sst[i].data)
                  /\ hist = [damaged |-> damaged, failed |-> FALSE]
    /\ ctl = CtlIdle
    /\ cmp = CmpIdle
    /\ usr = UsrIdle
    /\ last = [k \in Keys |-> None]

(* LiteDb::get(k): the front memtable, then the SSTables *)
CorruptGet(k) ==
    /\ LET f == Front(mem_tables)
           r == MemTableGet(mt[f], k)
           p == GetProbeResult(SeqFilter(SortedIds(ss_tables), sst, k), sst,
                               hist.damaged, k)
       IN /\ usr' = [UsrIdle EXCEPT !.pc = "done", !.op = "get", !.from = Some(k),
                                    !.obs_mem = {f}, !.obs_ss = ss_tables,
                                    !.res = IF r # None THEN <<"Ok", Resolve(r[1])>>
                                            ELSE p.res]
          /\ hist' = [hist EXCEPT !.failed = (r = None /\ p.failed)]
    /\ UNCHANGED <<mem_tables, mt, wal, sst, ss_tables, ctl, cmp, last>>

CorruptNext == \E k \in Keys : CorruptGet(k)

CorruptSpec == CorruptInit /\ [][CorruptNext]_vars

(* Writes that carry their rank: the n-th set of the caller writes the
   value <<n>>, so that the value of a record tells when it was written.
   Point reads, the controller thread and restarts run against them. *)
RankedStart ==
    \/ \E k \in Keys : hist.writes < MaxWrites /\ SetBegin(k, <<hist.writes + 1>>)
    \/ \E k \in Keys : GetBegin(k)

RankedNext ==
    \/ RankedStart
    \/ WriteFirst
    \/ WriteSecond
    \/ GetSSTables
    \/ CtlStep
    \/ CloseReopen
    \/ CrashReopen

RankedSpec == Init /\ [][RankedNext]_vars

----------------------------------------------------------------------------
(* Properties *)

GetDone == usr.pc = "done" /\ usr.op = "get"
ScanDone == usr.pc = "done" /\ usr.op = "scan"
WriteDone == usr.pc = "done" /\ usr.op \in {"set", "batch"}

(* what get must answer for a key whose newest acknowledged write is w *)
Expected(w) == IF w = None THEN None ELSE Resolve(w[1])

IsValue(w) == w # None /\ w[1] # TOMBSTONE

ItemKeys(items) == {items[i][1] : i \in 1..Len(items)}

StrictlyAscending(items) ==
    \A i \in 1..Len(items) - 1 : KeyLess(items[i][1], items[i + 1][1])

(* C1: read-your-writes.  In a run of operations and flush cycles on a
   fresh directory, a get that has returned for a key whose newest
   acknowledged write is a non-empty value v returned Some(v). *)
C1_ReadYourWrites ==
    (GetDone /\ hist.reopens = 0 /\ IsValue(last[usr.from[1]]))
        => usr.res = last[usr.from[1]]

(* C2: delete semantics.  In a run of operations and flush cycles on a
   fresh directory, a get that has returned for a key whose newest
   acknowledged write is a delete returned None. *)
C2_DeleteSemantics ==
    (GetDone /\ hist.reopens = 0 /\ last[usr.from[1]] = Some(TOMBSTONE))
        => usr.res = None

(* C3: last-write-wins across restarts.  After the engine was closed and
   reopened, a get for a key not written since returns the value of the
   newest set/delete/batch operation on it (None for a delete or for a key
   never written). *)
C3_LastWriteWinsAcrossRestart ==
    (GetDone /\ hist.closed /\ usr.from[1] \notin hist.sess)
        => usr.res = Expected(last[usr.from[1]])

(* C4: durability.  After a crash (the controller being anywhere in its
   cycle) and reopen, a get for a key whose newest acknowledged set was
   (k, v) and which was not written since returns Some(v); the get runs
   while the controller is between two cycles. *)
C4_Durability ==
    (GetDone /\ usr.quiet /\ hist.crashed /\ usr.from[1] \notin hist.sess
        /\ IsValue(last[usr.from[1]]))
        => usr.res = last[usr.from[1]]

(* C5: scan ordering and uniqueness.  scan(None, None), run in the first
   session while the controller is between two cycles, yields keys in
   strictly ascending order
   (so each at most once), each with the value of the newest write to that
   key. *)
C5_ScanNewest ==
    (ScanDone /\ usr.quiet /\ hist.reopens = 0 /\ usr.from = None /\ usr.to = None)
        => /\ StrictlyAscending(usr.items)
           /\ \A i \in 1..Len(usr.items) :
                  last[usr.items[i][1]] = Some(usr.items[i][2])

(* C6: scan bounds.  scan(Some(a), Some(b)) yields exactly the keys k with
   a <= k < b whose newest write is a non-empty value. *)
C6_ScanBounds ==
    (ScanDone /\ usr.from # None /\ usr.to # None)
        => ItemKeys(usr.items) =
               {k \in Keys : InRange(k, usr.from, usr.to) /\ IsValue(last[k])}

(* C7: durable before visible.  Every record in a memtable's map has been
   appended to that memtable's WAL file, and when set / apply_batch has
   returned Ok its records have been appended to the WAL of the memtable it
   wrote to.  (The file counts with the records written through the
   memtable's handle, also once save has removed its name: what a restart
   then finds is C4.) *)
InWal(id, k, v) == \E i \in 1..Len(wal[id].items) : wal[id].items[i] = <<k, v>>

C7_DurableBeforeVisible ==
    /\ \A id \in DOMAIN mt : \A k \in DOMAIN mt[id].entries :
           InWal(id, k, mt[id].entries[k])
    /\ WriteDone =>
           \A i \in 1..Len(usr.ops) : InWal(usr.tgt, usr.ops[i][1], usr.ops[i][2])

(* a set has returned Ok while the controller had already begun a cycle,
   and its record is in the map of the memtable it wrote to *)
C7_Witness ==
    /\ WriteDone /\ usr.op = "set"
    /\ ctl.pc # "idle"
    /\ usr.ops[1][1] \in DOMAIN mt[usr.tgt].entries
    /\ mt[usr.tgt].entries[usr.ops[1][1]] = usr.ops[1][2]

(* C8: apply_batch as a sequence of set/delete.  The memtable and the WAL
   written by apply_batch(ops) are those that set/delete of the same
   operations, one by one in sequence order, produce from the state before
   the call; and after close and reopen, get(k) for a key whose newest write
   was a batch operation returns that operation's value (None for a
   delete). *)
RECURSIVE SetOneByOne(_, _)
SetOneByOne(m, ops) ==
    IF ops = <<>> THEN m
    ELSE SetOneByOne(
             [ entries |-> MapInsert(m.entries, Head(ops)[1], Head(ops)[2]),
               size_bytes |-> m.size_bytes + Len(Head(ops)[1]) + Len(Head(ops)[2]) ],
             Tail(ops))

RECURSIVE AppendOneByOne(_, _)
AppendOneByOne(items, ops) ==
    IF ops = <<>> THEN items
    ELSE AppendOneByOne(WalAppend(items, Head(ops)[1], Head(ops)[2]), Tail(ops))

C8_BatchAsSets ==
    /\ (usr.pc = "done" /\ usr.op = "batch") =>
           /\ mt[usr.tgt] = SetOneByOne(usr.pre[1], usr.ops)
           /\ wal[usr.tgt].items = AppendOneByOne(usr.pre[2], usr.ops)
    /\ (GetDone /\ hist.closed /\ usr.from[1] \in hist.by_batch
            /\ usr.from[1] \notin hist.sess) =>
           usr.res = Expected(last[usr.from[1]])

(* C9: publication atomicity.  In the first session, no get or scan has
   read both the memtable a publication removes and the SSTable the same
   publication inserts: no table id is among the memtables the read
   consulted and among the SSTables it consulted. *)
C9_PublicationAtomic ==
    hist.reopens = 0 => usr.obs_mem \cap usr.obs_ss = {}

(* C10: no half-applied swap observed.  In the first session, a key whose
   newest acknowledged value is stored in a saved SSTable file is not
   missing from scan(None, None); and get does not report such a key absent
   when no table holds a delete of it. *)
Stored(k, v) ==
    \E i \in DOMAIN sst : \E j \in 1..Len(sst[i].data) : sst[i].data[j] = <<k, v>>

Deleted(k) ==
    \/ Stored(k, TOMBSTONE)
    \/ \E i \in DOMAIN mt : k \in DOMAIN mt[i].entries /\ mt[i].entries[k] = TOMBSTONE

C10_NoHalfAppliedSwap ==
    hist.reopens = 0 =>
        /\ (ScanDone /\ usr.from = None /\ usr.to = None) =>
               \A k \in Keys : (IsValue(last[k]) /\ Stored(k, last[k][1]))
                                    => k \in ItemKeys(usr.items)
        /\ (GetDone /\ IsValue(last[usr.from[1]])
                /\ Stored(usr.from[1], last[usr.from[1]][1])
                /\ ~Deleted(usr.from[1])) =>
               usr.res # None

(* C11: merging iterator newest-wins.  For sources given oldest first, each
   ascending by key without duplicates, the merged stream holds every key of
   any source exactly once, in strictly ascending order, each with the value
   of the highest-index source that contains the key; a key whose winning
   value is the tombstone is emitted too. *)
CombineDone == usr.pc = "done" /\ usr.op = "combine"

SourceHas(src, k) == \E j \in 1..Len(src) : src[j][1] = k

SourceValue(src, k) == src[CHOOSE j \in 1..Len(src) : src[j][1] = k][2]

Newest(srcs, k) ==
    CHOOSE i \in 1..Len(srcs) :
        /\ SourceHas(srcs[i], k)
        /\ \A j \in (i + 1)..Len(srcs) : ~SourceHas(srcs[j], k)

C11_CombineNewestWins ==
    CombineDone =>
        LET srcs == CombSources
        IN /\ StrictlyAscending(usr.items)
           /\ ItemKeys(usr.items) =
                  {k \in CombKeys : \E i \in 1..Len(srcs) : SourceHas(srcs[i], k)}
           /\ \A i \in 1..Len(usr.items) :
                  usr.items[i][2] =
                      SourceValue(srcs[Newest(srcs, usr.items[i][1])],
                                  usr.items[i][1])

(* three sources; a key held by the oldest and the newest with different
   values, a key whose winning value is the tombstone over an older value,
   and a key of one source only *)
C11_Witness ==
    /\ CombineDone
    /\ Len(CombSources) = 3
    /\ SourceHas(CombSources[1], <<1>>) /\ SourceHas(CombSources[3], <<1>>)
    /\ SourceValue(CombSources[1], <<1>>) # SourceValue(CombSources[3], <<1>>)
    /\ SourceHas(CombSources[1], <<2>>) /\ SourceHas(CombSources[2], <<2>>)
    /\ ~SourceHas(CombSources[3], <<2>>)
    /\ SourceValue(CombSources[1], <<2>>) = <<1>>
    /\ SourceValue(CombSources[2], <<2>>) = TOMBSTONE
    /\ SourceHas(CombSources[2], <<1, 1>>) /\ ~SourceHas(CombSources[1], <<1, 1>>)
    /\ ~SourceHas(CombSources[3], <<1, 1>>)
    /\ Len(usr.items) = 3

(* C12: WAL recovery outcomes at open.  When a record of the file is stored
   with a checksum that differs from the CRC of its key and value, open
   fails with CorruptedData; when the file is cut inside a record, open
   succeeds and the memtable holds every record before the torn one. *)
OpenDone == usr.pc = "done" /\ usr.op = "open"

C12_WalRecoveryOutcomes ==
    OpenDone =>
        /\ hist.damage = "checksum" => usr.res = <<"CorruptedData">>
        /\ hist.damage = "torn" =>
               /\ usr.res = <<"Ok">>
               /\ mt[0].entries =
                      MapInsertAll(EmptyMap, SubSeq(wal[0].items, 1, hist.at - 1))

(* C13: close terminates.  Once the engine is being dropped, under fair
   scheduling the controller and the compactor both exit and drop returns,
   also when ticks are ready together with the kill signal and when a flush
   cycle is in progress. *)
C13_CloseTerminates ==
    (usr.op = "close") ~>
        (usr.pc = "dropped" /\ ctl.pc = "exited" /\ cmp.pc = "exited")

(* drop has returned, and the kill signal was sent while the controller
   was inside a flush cycle *)
C13_Witness ==
    /\ usr.op = "close" /\ usr.pc = "dropped" /\ ~usr.quiet
    /\ ctl.pc = "exited" /\ cmp.pc = "exited"
    /\ ss_tables # {}

----------------------------------------------------------------------------
(* a table is held: the one save returned or the one open returned *)
TableHeld == usr.op \in {"save", "open"}

(* what a lookup answers for a record with this value *)
Resolution(v) == IF v = TOMBSTONE THEN None ELSE Some(v)

(* C14: the Bloom filter never excludes a present key.  For the table save
   returned and for the table open read back from the file, every key of a
   record of the data region passes potentially_contains_key, and a lookup
   of such a key answers with the record's value (absent for a tombstone):
   the filter never turns a present key into an absent one. *)
C14_BloomNeverExcludes ==
    TableHeld =>
        LET t == usr.res[1]
        IN \A i \in 1..Len(t.data) :
               /\ PotentiallyContainsKey(t, t.data[i][1])
               /\ last.key = Some(t.data[i][1]) => last.res = Resolution(t.data[i][2])

(* a table read back by open whose filter excludes some key, and a lookup
   in it of a key it holds that returned the stored value *)
C14_Witness ==
    /\ usr.op = "open"
    /\ last.on = "open"
    /\ last.res # None
    /\ \E i \in 1..Len(usr.res[1].data) : last.key = Some(usr.res[1].data[i][1])
    /\ \E k \in TableKeys : ~PotentiallyContainsKey(usr.res[1], k)

(* the records met iterating forward from an offset, no bound on the keys *)
Forward(t, offset_opt) == IterCollect(t, offset_opt, None, None)

(* k is met in items before any key greater than k *)
ReachesKey(items, k) ==
    \E i \in 1..Len(items) :
        /\ items[i][1] = k
        /\ \A j \in 1..(i - 1) : KeyLess(items[j][1], k)

(* C15: sparse-index correctness.  For every table save produced, whatever
   the sizes of its records and the sparse_index_range_size, and for every
   key k of its data region, iterating forward from get_offset(k) meets k
   before any key greater than k. *)
C15_SparseIndexReachesKey ==
    TableHeld =>
        LET t == usr.res[1]
        IN \A i \in 1..Len(t.data) :
               LET offset_opt == GetOffset(t.index, t.data[i][1])
               IN /\ offset_opt # None
                  /\ ReachesKey(Forward(t, offset_opt), t.data[i][1])

(* a lookup of a key the table holds started from an index entry inside the
   data region and had to pass over a record before the key *)
C15_Witness ==
    /\ usr.op = "save"
    /\ last.on = "save"
    /\ last.res # None
    /\ last.offset # None
    /\ \E i \in 1..Len(usr.res[1].data) :
           /\ last.key = Some(usr.res[1].data[i][1])
           /\ last.offset[1] > 0
           /\ last.offset[1] < OffsetOf(usr.res[1].data, i)
           /\ ctl.sparse_index_range_size > 1

(* the SSTables among ids whose data region holds a record for key k, and
   the value of that record *)
Holders(ids, k) ==
    {i \in ids : \E n \in 1..Len(sst[i].data) : sst[i].data[n][1] = k}

RecordValue(i, k) ==
    LET n == CHOOSE n \in 1..Len(sst[i].data) : sst[i].data[n][1] = k
    IN sst[i].data[n][2]

MaxOf(ids) == CHOOSE i \in ids : \A j \in ids : j <= i

(* C16: get probes SSTables newest-first.  When the current memtable has no
   entry for k and get goes to the SSTables, the answer is the resolution,
   the value or absent for a tombstone, of the record for k in the SSTable
   with the highest id among those that hold k. *)
C16_GetNewestSSTableFirst ==
    (GetDone /\ Holders(usr.obs_ss, usr.from[1]) # {}) =>
        usr.res = Resolution(RecordValue(MaxOf(Holders(usr.obs_ss, usr.from[1])),
                                         usr.from[1]))

(* the memtables of mem_tables that hold an entry for key k *)
MemHolders(k) == {i \in mem_tables : k \in DOMAIN mt[i].entries}

(* C17: get probes the memtables before any SSTable.  Whenever a get of k
   starts while some memtable of mem_tables holds an entry for k, the
   current one or one being flushed or recovered from another WAL, the get
   answers from the memtables alone, with the resolution of the entry of
   the newest memtable that holds k. *)
C17_GetProbesMemTables ==
    [][\A k \in Keys :
           (/\ UsrFree
            /\ usr' # usr
            /\ usr'.op = "get"
            /\ usr'.from = Some(k)
            /\ MemHolders(k) # {})
           => (/\ usr'.pc = "done"
               /\ usr'.res = Resolve(mt[MaxOf(MemHolders(k))].entries[k]))]_vars

(* a get answered from the memtable being flushed while a newer memtable
   without the key is in mem_tables and SSTables are published *)
C17_Witness ==
    /\ GetDone
    /\ usr.res # None
    /\ usr.obs_ss = {}
    /\ ss_tables # {}
    /\ \E i \in mem_tables, j \in mem_tables :
           /\ i < j
           /\ usr.obs_mem = {i}
           /\ usr.from[1] \in DOMAIN mt[i].entries
           /\ usr.from[1] \notin DOMAIN mt[j].entries
           /\ usr.res = Resolve(mt[i].entries[usr.from[1]])

(* C18: write routing.  Every set, delete and apply_batch that starts takes
   the memtable with the highest id of mem_tables as its target; so once
   the controller has inserted the memtable with id current.id + 1, no
   write that starts later lands on the previous memtable. *)
C18_WriteRouting ==
    [][(UsrFree /\ usr'.pc = "write_1") => usr'.tgt = MaxOf(mem_tables)]_vars

(* C19: the result of a flush cycle.  When the controller completes a cycle
   on memtable M (the second statement of the publication has run),
   mem_tables does not contain M and contains the memtable with id
   M.id + 1, and ss_tables contains the SSTable with id M.id, whose records
   are exactly the entries M holds, each key once, tombstones included. *)
C19_FlushCycleResult ==
    [][(ctl.pc = "insert" /\ ctl'.pc = "idle" /\ hist'.reopens = hist.reopens)
       => LET M == ctl.cur
          IN /\ M \notin mem_tables'
             /\ (M + 1) \in mem_tables'
             /\ M \in ss_tables'
             /\ sst'[M].id = M
             /\ sst'[M].data = MemTableScan(mt'[M], None, None)]_vars

(* memtable i is the one that receives writes, it is mature, and the keys
   of its entries are K *)
MatureWith(i, K) ==
    /\ i \in mem_tables
    /\ i = Front(mem_tables)
    /\ (Cardinality(DOMAIN mt[i].entries) >= max_entries
           \/ mt[i].size_bytes >= max_size_bytes)
    /\ DOMAIN mt[i].entries = K

(* memtable i has left mem_tables and SSTable i, with a record for every
   key of K, is in ss_tables *)
FlushedWith(i, K) ==
    /\ i \notin mem_tables
    /\ i \in ss_tables
    /\ K \subseteq ItemKeys(sst[i].data)

(* C20: flush liveness.  Whenever the memtable that receives writes is
   mature, under fair scheduling of the controller and with no save
   failure, it is eventually removed from mem_tables and an SSTable with
   its id holding a record for each of its entries is eventually in
   ss_tables (for the ids below MaxId, the last id the controller may open
   here). *)
C20_FlushLiveness ==
    \A i \in 0..(MaxId - 1) : \A K \in SUBSET Keys :
        MatureWith(i, K) ~> FlushedWith(i, K)

(* what LiteDb::get(k) answers, run without interleaving, on these sets of
   memtables and SSTables *)
GetWith(mems, tables, ss, files, k) ==
    LET r == MemTableGet(tables[Front(mems)], k)
    IN IF r # None THEN Resolve(r[1]) ELSE GetFromSSTables(ss, files, k)

(* the same in the current state, and in the state a step leads to *)
GetNow(k) == GetWith(mem_tables, mt, ss_tables, sst, k)

GetAfter(k) == GetWith(mem_tables', mt', ss_tables', sst', k)

SaveFailed == "failed" \in DOMAIN ctl

(* C21: flush failure policy.  Once save has failed in a cycle the
   publication does not run: the memtable being flushed stays in
   mem_tables and no SSTable with its id enters ss_tables; and no step of
   the controller before the publication, the failing one included, changes
   ss_tables, removes a memtable or changes what get answers for any key. *)
C21_FlushFailurePolicy ==
    /\ [](SaveFailed => (ctl.cur \in mem_tables /\ ctl.cur \notin ss_tables))
    /\ [][(ctl' # ctl /\ ctl.pc \notin {"remove", "insert"})
            => (/\ ss_tables' = ss_tables
                /\ mem_tables \subseteq mem_tables'
                /\ \A k \in Keys : GetAfter(k) = GetNow(k))]_vars

(* a cycle on the second memtable failed while writing the file, after a
   first cycle had published SSTable 0; the caller's key is still read *)
C21_Witness ==
    /\ SaveFailed
    /\ ctl.pc = "panicked"
    /\ ctl.cur = 1
    /\ mem_tables = {1, 2}
    /\ ss_tables = {0}
    /\ 1 \in DOMAIN sst
    /\ \E k \in DOMAIN mt[1].entries : mt[1].entries[k] # TOMBSTONE /\ GetNow(k) = Some(mt[1].entries[k])

(* the front memtable counts as mature under the limits of the options *)
FrontMature ==
    LET m == mt[Front(mem_tables)]
    IN Cardinality(DOMAIN m.entries) >= hist.max_entries
          \/ m.size_bytes >= hist.max_size_bytes

(* C22: maturity rule and no-op tick.  With the controller between two
   cycles: when the current memtable has entries >= max_entries or
   size_bytes >= max_size_bytes a tick starts a cycle on it (while an id is
   left below MaxId); when it has neither, a tick changes nothing, neither
   mem_tables nor ss_tables nor any file; and a cycle only ever starts on
   a mature memtable. *)
C22_MaturityRule ==
    /\ []((ctl.pc = "idle" /\ FrontMature /\ Front(mem_tables) + 1 <= MaxId)
            => ENABLED <<PolicyTick>>_vars)
    /\ []((ctl.pc = "idle" /\ ~FrontMature) => ~ENABLED <<TickNext>>_vars)
    /\ [][(ctl.pc = "idle" /\ ctl'.pc # "idle")
            => (FrontMature /\ ctl'.cur = Front(mem_tables)
                /\ UNCHANGED <<mem_tables, mt, wal, sst, ss_tables>>)]_vars

(* a cycle started on a memtable that is mature by its size alone, after
   overwrites *)
C22_Witness ==
    /\ ctl.pc = "open_new"
    /\ Cardinality(DOMAIN mt[ctl.cur].entries) < hist.max_entries
    /\ mt[ctl.cur].size_bytes >= hist.max_size_bytes
    /\ Len(wal[ctl.cur].items) > Cardinality(DOMAIN mt[ctl.cur].entries)

(* the record (k, v) is in the WAL file of memtable i, still in the
   directory, or in the complete SSTable file with id i *)
OnDisk(i, k, v) ==
    \/ /\ wal[i].st = "linked"
       /\ \E n \in 1..Len(wal[i].items) : wal[i].items[n] = <<k, v>>
    \/ /\ i \in DOMAIN sst
       /\ \E n \in 1..Len(sst[i].data) : sst[i].data[n] = <<k, v>>

(* C23: the WAL is retired only after the SSTable is complete.  A
   memtable's WAL file is gone from the directory only when the SSTable
   file with its id is complete; so in every state, each a possible crash
   point, every record a memtable of mem_tables holds is in its WAL file
   or in the complete SSTable file. *)
C23_WalRetiredAfterSSTable ==
    \A i \in mem_tables :
        /\ wal[i].st = "unlinked" => i \in DOMAIN sst
        /\ \A k \in DOMAIN mt[i].entries : OnDisk(i, k, mt[i].entries[k])

(* C24: WAL round-trip.  For every sequence of records appended to a WAL,
   whatever the keys and values, empty ones included, iter() on the file
   as the appends left it yields exactly those records in append order and
   no error; on a freshly created WAL it yields no record. *)
C24_WalRoundTrip ==
    (usr.pc = "done" /\ usr.op = "iter" /\ hist.damage = "none") =>
        (usr.items = wal[0].items /\ usr.res = None)

(* C25: SSTable point lookup.  For the table save made from memtable M and
   for the table open read back from its file, and every key k looked up,
   SSTable::get answers Some(v) exactly when M maps k to a non-empty v,
   and None when k is not in M or M maps it to the tombstone, also when
   the Bloom filter lets an absent key through. *)
C25_SSTablePointLookup ==
    (TableHeld /\ last.key # None) =>
        last.res = IF last.key[1] \in DOMAIN mt[0].entries
                   THEN Resolution(mt[0].entries[last.key[1]])
                   ELSE None

(* a lookup, in the table read back by open, of a key the memtable does not
   hold but the Bloom filter lets through, with records on both sides of it *)
C25_Witness ==
    /\ usr.op = "open"
    /\ last.on = "open"
    /\ last.key # None
    /\ last.key[1] \notin DOMAIN mt[0].entries
    /\ PotentiallyContainsKey(usr.res[1], last.key[1])
    /\ last.offset # None
    /\ \E a \in DOMAIN mt[0].entries, b \in DOMAIN mt[0].entries :
           /\ KeyLess(a, last.key[1]) /\ KeyLess(last.key[1], b)
           /\ mt[0].entries[b] # TOMBSTONE
    /\ last.res = None

(* C26: SSTable range scan.  For every table and bounds from / to, either
   of which may be None, scan(from, to) yields exactly the records of the
   table (those of the memtable it was made from) with from <= k < to, each
   once, in ascending key order. *)
C26_SSTableRangeScan ==
    (TableHeld /\ hist.on # "none") =>
        hist.items = MemTableScan(mt[0], hist.from, hist.to)

(* a scan of the table read back by open, with both bounds, that starts
   from an index entry inside the data region, yields some records and
   leaves out records on both sides *)
C26_Witness ==
    /\ usr.op = "open"
    /\ hist.on = "open"
    /\ hist.from # None
    /\ hist.to # None
    /\ GetOffset(usr.res[1].index, hist.from[1]) # Some(0)
    /\ hist.items # <<>>
    /\ \E a \in DOMAIN mt[0].entries : KeyLess(a, hist.from[1])
    /\ \E b \in DOMAIN mt[0].entries : KeyLeq(hist.to[1], b)

(* the offset of the last entry of the index among those in js, the first
   entry's offset when js is empty *)
OffsetOfLast(items, js) ==
    IF js = {} THEN items[1][2] ELSE items[MaxOf(js)][2]

(* C27: for every sparse index built by save and every key, get_offset(key)
   returns the offset of the largest index entry whose key is <= key, the
   first entry's offset when no entry key is <= key. *)
C27_GetOffsetLargestLeq ==
    TableHeld =>
        LET items == usr.res[1].index
        IN \A key \in TableKeys :
               GetOffset(items, key) =
                   Some(OffsetOfLast(items, {j \in 1..Len(items) :
                                                 KeyLeq(items[j][1], key)}))

(* C27 amended: get_offset(key) returns the offset of the largest index
   entry whose key is strictly below key, the first entry's offset when no
   entry key is below key. *)
C27_GetOffsetLargestBelow ==
    TableHeld =>
        LET items == usr.res[1].index
        IN \A key \in TableKeys :
               GetOffset(items, key) =
                   Some(OffsetOfLast(items, {j \in 1..Len(items) :
                                                 KeyLess(items[j][1], key)}))

(* a lookup of a key that is itself the key of an index entry past the
   first one: the offset taken is that of the entry before it *)
C27_Witness ==
    /\ TableHeld
    /\ last.key # None
    /\ last.offset # None
    /\ \E j \in 2..Len(usr.res[1].index) :
           /\ usr.res[1].index[j][1] = last.key[1]
           /\ KeyLess(usr.res[1].index[j - 1][1], last.key[1])
           /\ last.offset = Some(usr.res[1].index[j - 1][2])
           /\ usr.res[1].index[j - 1][2] > 0
           /\ usr.res[1].index[j][2] # usr.res[1].index[j - 1][2]

(* C28: for every SSTable produced by save, whatever the range size R and the
   record sizes, the sparse index holds at least one boundary entry per R
   bytes of serialized data -- every record starts less than R bytes after
   the offset of some index entry at or before it, so that a lookup reads at
   most about R bytes plus one record from the offset it is given -- and the
   index ends with the terminator entry (last key, size of the data region). *)
C28_SparseIndexDensity ==
    (usr.pc = "done" /\ usr.op = "save") =>
        LET t == usr.res[1]
            R == ctl.sparse_index_range_size
            n == Len(t.index)
        IN /\ t.index[n] = <<t.data[Len(t.data)][1], DataSize(t.data)>>
           /\ \A i \in 1..Len(t.data) :
                  \E j \in 1..n :
                      /\ t.index[j][2] <= OffsetOf(t.data, i)
                      /\ OffsetOf(t.data, i) - t.index[j][2] < R

(* key.len + value.len summed over a sequence of operations *)
RECURSIVE SumOfLengths(_)
SumOfLengths(ops) ==
    IF ops = <<>> THEN 0
    ELSE Len(ops[1][1]) + Len(ops[1][2]) + SumOfLengths(Tail(ops))

(* C29: a memtable's size_bytes equals the sum of key.len + value.len over
   every set and every batch operation that succeeded on it, an overwrite or
   a delete of an existing key counted again and a failed write not counted;
   save records exactly this value as the SSTable's total_size, and
   num_entries is the number of distinct keys of the memtable. *)
C29_SizeAccounting ==
    /\ mt[0].size_bytes = SumOfLengths(hist.applied)
    /\ (usr.pc = "done" /\ usr.op = "save") =>
           /\ usr.res[1].total_size = SumOfLengths(hist.applied)
           /\ usr.res[1].num_entries =
                  Cardinality(OpKeys(hist.replayed \o hist.applied))

(* a save after an overwrite and a failed write: the size recorded is more
   than the records written hold, and the entries are fewer than the writes *)
C29_Witness ==
    /\ usr.pc = "done" /\ usr.op = "save"
    /\ hist.failed > 0
    /\ \E i, j \in 1..Len(hist.applied) :
           i < j /\ hist.applied[i][1] = hist.applied[j][1]
    /\ usr.res[1].total_size > SumOfLengths(usr.res[1].data)
    /\ usr.res[1].num_entries < Len(hist.applied)

(* table i of the files holds the record (k, v) *)
HoldsRecord(files, i, k, v) ==
    i \in DOMAIN files /\ \E n \in 1..Len(files[i].data) : files[i].data[n] = <<k, v>>

(* C30: compaction preserves reads.  A step of the compactor thread, its
   tick and the round that follows, leaves what get answers unchanged for
   every key; the SSTables it removes from ss_tables leave together with the
   insertion of SSTables that hold, for every key the removed ones held, the
   newest of their records for it; and that record is left out only when it
   is a tombstone and no older SSTable that stays holds the key. *)
C30_CompactionPreservesReads ==
    [][cmp' # cmp =>
         /\ \A k \in Keys : GetAfter(k) = GetNow(k)
         /\ LET old_tables == ss_tables \ ss_tables'
                new_tables == ss_tables' \ ss_tables
            IN \A k \in Keys :
                   Holders(old_tables, k) # {} =>
                       LET newest == MaxOf(Holders(old_tables, k))
                           v == RecordValue(newest, k)
                       IN \/ \E j \in new_tables : HoldsRecord(sst', j, k, v)
                          \/ /\ v = TOMBSTONE
                             /\ \A i \in Holders(ss_tables \ old_tables, k) :
                                    i > newest]_vars

(* the compactor's tick has collected two published SSTables, the older
   holding a value for a key and the newer its tombstone, for its round *)
C30_Witness ==
    /\ cmp.pc = "evaluate"
    /\ hist.writes = MaxWrites
    /\ Cardinality(ss_tables) = 2
    /\ \E k \in Keys :
           /\ Holders(ss_tables, k) = ss_tables
           /\ RecordValue(MaxOf(ss_tables), k) = TOMBSTONE
           /\ RecordValue(Front(ss_tables), k) # TOMBSTONE

(* under RankedSpec: no SSTable of ss_tables holds, for a key of the
   memtable get consults first, a record written after the memtable's *)
NoLaterSSTableRecord ==
    LET f == Front(mem_tables)
    IN \A k \in DOMAIN mt[f].entries :
           \A i \in Holders(ss_tables, k) :
               RecordValue(i, k)[1] <= mt[f].entries[k][1]

SSTableIdsBelowMemTableIds ==
    \A i \in ss_tables : \A j \in mem_tables : i < j

(* C31: the memtable is at least as recent as any SSTable.  In every
   reachable state, for a key get finds in the memtable it consults first,
   no SSTable of ss_tables holds a write to the key made later than the
   memtable's record; every SSTable's id is lower than the id of every
   memtable of mem_tables. *)
C31_MemtableAtLeastAsRecent ==
    NoLaterSSTableRecord /\ SSTableIdsBelowMemTableIds

(* C31 amended: no SSTable holds a later write than the record get finds in
   the memtable it consults first; an SSTable's id is never above a
   memtable's, and equals one only after a crash left both the WAL file and
   the SSTable file of a memtable in the directory. *)
C31_AtLeastAsRecentUpToCrash ==
    /\ NoLaterSSTableRecord
    /\ \A i \in ss_tables : \A j \in mem_tables :
           i <= j /\ (i = j => hist.crashed)

(* get has answered from the memtable it consulted first with a record
   newer than the one an SSTable holds for the key *)
C31_Witness ==
    /\ GetDone
    /\ usr.obs_mem = {Front(mem_tables)}
    /\ usr.from[1] \in DOMAIN mt[Front(mem_tables)].entries
    /\ usr.res = Some(mt[Front(mem_tables)].entries[usr.from[1]])
    /\ \E i \in Holders(ss_tables, usr.from[1]) :
           RecordValue(i, usr.from[1])[1] < usr.res[1][1]

(* C32: a failed write leaves the memtable unchanged.  When the WAL append
   of a set, or the WAL write of a batch, returns an error, the call returns
   the error and neither the in-memory map nor size_bytes is modified. *)
C32_FailedWriteLeavesMemtable ==
    [][hist'.failed # hist.failed =>
         /\ usr'.res = <<"Err">>
         /\ mt'[0].entries = mt[0].entries
         /\ mt'[0].size_bytes = mt[0].size_bytes]_vars

(* a batch has failed after part of it reached the WAL file, on a memtable
   that holds earlier writes: the file has records the map has not *)
C32_Witness ==
    /\ usr.pc = "done" /\ usr.op = "batch" /\ usr.res = <<"Err">>
    /\ hist.failed > 0
    /\ hist.applied # <<>>
    /\ hist.reopens = 0
    /\ Len(wal[0].items) > Len(hist.applied)
    /\ mt[0].size_bytes = SumOfLengths(hist.applied)

(* C33: merge errors terminate the stream.  When advancing a source inside
   CombineIterator returns an error the current call of next returns that
   error, and the stream is over: every later call of next returns None and
   no further item is emitted. *)
C33_MergeErrorsTerminate ==
    [][(hist'.calls # hist.calls /\ hist.errored) => usr'.res = None]_vars

(* C34: corruption is reported, not hidden.  When reading an SSTable during
   get fails, a record of its data region not decoding, get returns that
   error to the caller, not a value from another table and not absent. *)
C34_CorruptionReported ==
    (GetDone /\ hist.failed) => usr.res = <<"Err">>

(* C35: no acknowledged write is lost by a concurrent flush.  At the
   granularity of the steps (WAL append, map insert, save's walk, WAL
   deletion, publication), every write that returned Ok is in a memtable
   still in mem_tables or in the SSTable written for the memtable it went
   to: a memtable that has left mem_tables holds no record its SSTable
   lacks. *)
C35_NoWriteLostByFlush ==
    \A i \in DOMAIN mt :
        i \notin mem_tables =>
            \A k \in DOMAIN mt[i].entries :
                HoldsRecord(sst, i, k, mt[i].entries[k])

(* C36: mem_tables is never empty.  In every reachable state after open,
   the steps inside a controller cycle and the states after a directory is
   reopened included, mem_tables holds at least one memtable, and it has a
   memtable object for each id: front() in set, get, apply_batch and in the
   controller always finds one. *)
C36_MemTablesNeverEmpty ==
    mem_tables # {} /\ mem_tables \subseteq DOMAIN mt

(* after a crash and a reopen, the controller has removed the flushed
   memtable and not yet published its SSTable, a write being under way:
   one memtable is left *)
C36_Witness ==
    /\ hist.crashed
    /\ ctl.pc = "insert"
    /\ Cardinality(mem_tables) = 1
    /\ usr.pc = "write_2"

(* C37: apply_batch is all-or-nothing.  If it returns an error no operation
   of the batch is visible to get (the map is as before the call); and after
   a crash during apply_batch followed by a reopen, the recovered memtable
   reflects every operation of the batch or none of them. *)
C37_BatchAllOrNothing ==
    /\ [][(hist'.failed # hist.failed /\ usr'.op = "batch") =>
             mt'[0].entries = mt[0].entries]_vars
    /\ [](usr.op = "crash_batch" =>
             \/ mt[0].entries = usr.pre[1]
             \/ mt[0].entries = MapInsertAll(usr.pre[1], usr.ops))

(* C38: drop survives a failed worker.  Dropping the engine ends without a
   panic even when the controller thread has ended because opening the new
   memtable or save failed in a cycle: stop's send on the kill channel and
   its join both complete. *)
C38_DropSurvivesFailedWorker ==
    ~(usr.op = "close" /\ usr.pc = "panicked")

(* C39: the controller never flushes an empty memtable.  For every policy
   setting, max_entries = 0 and max_size_bytes = 0 included, and every
   reachable state, a freshly opened engine with no writes included, save is
   called only on a memtable that holds at least one entry, so that the
   first-key and last-key lookups of save are defined. *)
C39_NeverFlushesEmptyMemtable ==
    /\ ctl.pc = "save_walk" => DOMAIN mt[ctl.cur].entries # {}
    /\ ctl.pc # "panicked"

(* C40: SSTableIterator stays inside the data region.  For every table
   save produces and every pair of bounds, no call of next decodes at an
   offset at or beyond the size of the data region, no call yields an
   error, and a call made after one that returned None returns None. *)
C40_IteratorStaysInsideData ==
    last.on = "iter" =>
        /\ \A off \in last.decoded : off < DataSize(usr.res[1].data)
        /\ last.res # Some(<<"Err">>)
        /\ last.ended => last.res = None

(* an iterator starting from a key of the index that is not at offset 0,
   which yielded records, returned None at the stop key, and was called
   again, decoding once more *)
C40_Witness ==
    /\ last.on = "iter"
    /\ last.from # None
    /\ last.to # None
    /\ \E e \in 1..Len(usr.res[1].index) :
           usr.res[1].index[e][1] = last.from[1]
    /\ GetOffset(usr.res[1].index, last.from[1]) # Some(0)
    /\ last.yielded > 0
    /\ last.ended
    /\ last.decoded # {}

====
